---- MODULE Spec2Model ----
(***************************************************************************)
(* Ollama Web Search (main.ts): the retrieval / aggregation / inference    *)
(* pipeline as a state machine.                                            *)
(*                                                                         *)
(*   Spec       one run of main(): search, parallel fetch tasks with the   *)
(*              module-level cache, the join, the model fallback loop of   *)
(*              answerQuery, the metrics report.                           *)
(*   SpecCache  SimpleCache driven by arbitrary get / set calls.           *)
(*   SpecSearch getNewsUrls alone, against an arbitrary search backend.     *)
(*   SpecWarm   getCleanedText called twice with the same URL list.          *)
(*   SpecFetch  one getCleanedText call for one URL, against a server      *)
(*              whose behaviour is fixed beforehand.                       *)
(*   SpecAnswer answerQuery alone, called with any list of texts.          *)
(*   SpecConfig start-up: cli.ts and the module body of main.ts, up to the *)
(*              call of main().                                            *)
(*                                                                         *)
(* Every action is one JavaScript job: the code that runs between two      *)
(* awaits (an event-loop callback with the microtasks it triggers).        *)
(*                                                                         *)
(* A run reads Date.now() to stamp documents and cache entries and to age  *)
(* the entries it looks up; the cache is empty when the run starts, so no  *)
(* step of a run depends on the clock and Spec takes a run at one instant. *)
(* Timers are events that may fire at any moment while armed.  SpecCache   *)
(* and SpecWarm have the clock.                                            *)
(***************************************************************************)
EXTENDS Integers, Sequences, FiniteSets, TLC

(***************************************************************************)
(* Bounds of the model.                                                    *)
(***************************************************************************)
\* longest URL list the search stage hands to getCleanedText
MaxUrls == 2
\* URLs are 1..MaxUrlId
MaxUrlId == 2
\* most response fragments written to stdout during one answerQuery call
MaxOut == 1
\* config.maxResults is 1..MaxResultsBound in SpecSearch
MaxResultsBound == 2
\* longest `results` array of a search response
MaxHits == 3
\* most get / set calls of one SpecCache behaviour
MaxOps == 2
\* SpecCache starts with a cache holding maxSize - MaxGap .. maxSize entries
MaxGap == 1
\* the SpecCache clock runs to at most ttl + MaxLate past its start
MaxLate == 1

\* longest list of texts answerQuery is called with on its own
MaxTexts == 2

(***************************************************************************)
(* Program constants.                                                      *)
(***************************************************************************)
\* SimpleCache.maxSize
maxSize == 100
\* SimpleCache.ttl = 1000 * 60 * 60
ttl == 3600000
\* html.length < 100
MinHtmlLength == 100
\* text.length < 50
MinTextLength == 50

\* JavaScript null: the value of a fetch task that produced no document, and
\* of a cache lookup that found nothing
Null == [null |-> TRUE]

VARIABLES
    cache,            \* SimpleCache.cache: the Map's entries in insertion order
    now,              \* Date.now()
    config,           \* config (loadConfig)
    metrics,          \* metrics: totalUrls, successfulUrls, cacheHits, totalTokens
    pc,               \* where main() is: search, fetch, ai, done, exit1
    urls,             \* urls (main / getCleanedText)
    task,             \* fetchPromises: one record per URL of the call
    alltexts,         \* alltexts (main): what getCleanedText returned
    modelIdx,         \* position of modelName in fallbackModels (0: not started)
    gen,              \* answerQuery: idle, request, stream, returned, threw
    attemptedModels,  \* models ollama.generate was called with, in call order
    failedModels,     \* `Model X failed` warnings, in order
    lastError,        \* lastError of answerQuery
    hasStarted,       \* hasStarted of the current attempt
    tokenCount,       \* tokenCount of the current attempt
    contextSize,      \* contextSize of answerQuery (0: not called)
    numCtx,           \* options.num_ctx of the ollama.generate calls, in call order
    stdout,           \* response fragments written by Deno.stdout.write
    report,           \* user-facing outcome of the run and the error thrown to main
    shown,            \* number of displayMetrics() reports
    lastGet,          \* SpecCache: the last cache operation, what it returned, when
    ops,              \* SpecCache: number of cache operations so far
    search,           \* SpecSearch: the getNewsUrls call and what the backend sent
    firstCall,        \* SpecWarm: what the first getCleanedText call returned
    served,           \* SpecFetch: what the network and the remote server will do
    argv,             \* SpecConfig: the command line given to cli.ts
    env,              \* SpecConfig: Deno.env
    options,          \* SpecConfig: options of main() in cli.ts
    logged            \* SpecConfig: the log('WARN', ...) calls of loadConfig

vars == <<cache, now, config, metrics, pc, urls, task, alltexts, modelIdx, gen,
          attemptedModels, failedModels, lastError, hasStarted, tokenCount,
          contextSize, numCtx, stdout, report, shown, lastGet, ops, search,
          firstCall, served, argv, env, options, logged>>

\* what the process starts from: the network, the command line, the environment
hostVars == <<served, argv, env, options, logged>>

cacheVars == <<cache, now, lastGet, ops>>
runVars == <<config, metrics, pc, urls, task, alltexts, modelIdx, gen,
             attemptedModels, failedModels, lastError, hasStarted, tokenCount,
             contextSize, numCtx, stdout, report, shown, search, firstCall,
             hostVars>>

(***************************************************************************)
(* SimpleCache (main.ts 35-80).  The Map is a sequence of entries in       *)
(* insertion order: Array.from(map.entries()) and the stable sort of set   *)
(* see that order.                                                         *)
(***************************************************************************)
CacheEntry(key, content, t) ==
    [key |-> key, content |-> content, timestamp |-> t, hits |-> 0]

\* position of key in the Map, 0 when absent
CacheIndex(c, key) ==
    IF \E i \in 1..Len(c) : c[i].key = key
    THEN CHOOSE i \in 1..Len(c) : c[i].key = key
    ELSE 0

ExpiredAtTtl(entry, t) == t - entry.timestamp >= ttl

\* Date.now() - entry.timestamp > this.ttl
Expired(entry, t) == t - entry.timestamp > ttl

\* the value get(key) returns at time t
CacheGetValue(c, key, t) ==
    LET i == CacheIndex(c, key) IN
    IF i = 0 THEN Null
    ELSE IF Expired(c[i], t) THEN Null
    ELSE c[i].content

\* entries of c at the positions not in S, order kept (Map.delete)
DeleteAt(c, S) ==
    LET marked == [i \in 1..Len(c) |-> [entry |-> c[i], deleted |-> i \in S]]
        kept == SelectSeq(marked, LAMBDA m : ~m.deleted)
    IN [k \in 1..Len(kept) |-> kept[k].entry]

CacheAfterGetTouching(c, key, t) ==
    LET i == CacheIndex(c, key) IN
    IF i = 0 THEN c
    ELSE IF Expired(c[i], t) THEN DeleteAt(c, {i})
    ELSE [c EXCEPT ![i].hits = @ + 1, ![i].timestamp = t]

\* the Map after get(key) at time t: an expired entry is deleted, a valid one
\* has its hits incremented
CacheAfterGet(c, key, t) ==
    LET i == CacheIndex(c, key) IN
    IF i = 0 THEN c
    ELSE IF Expired(c[i], t) THEN DeleteAt(c, {i})
    ELSE [c EXCEPT ![i].hits = @ + 1]

AtCapacityOffByOne(size) == size > maxSize

\* this.cache.size >= this.maxSize
AtCapacity(size) == size >= maxSize

EvictCountInclusive == ((maxSize * 2) \div 10) + 1

\* number of iterations of `for (let i = 0; i < this.maxSize * 0.2; i++)`:
\* the least i with i >= maxSize * 2 / 10
EvictCount ==
    CHOOSE n \in 0..maxSize : /\ 10 * n >= 2 * maxSize
                              /\ \A m \in 0..(n - 1) : 10 * m < 2 * maxSize

SortRankByInsertion(c, i) == i - 1

\* position of entry i after entries.sort((a, b) => a[1].timestamp - b[1].timestamp),
\* counted from 0; the sort is stable, so ties keep insertion order
SortRank(c, i) ==
    LET t == c[i].timestamp IN
    Cardinality({j \in 1..Len(c) :
        IF j < i THEN c[j].timestamp <= t ELSE c[j].timestamp < t})

EvictedPositionsPartial(c) ==
    {i \in 1..Len(c) : SortRank(c, i) < EvictCount \div 2}

\* positions deleted by the eviction loop: entries[0 .. EvictCount-1]
EvictedPositions(c) ==
    {i \in 1..Len(c) : SortRank(c, i) < EvictCount}

MapSetKeepsOld(c, entry) ==
    IF \E i \in 1..Len(c) : c[i].key = entry.key THEN c ELSE Append(c, entry)

\* the Map after Map.set(key, value): a present key keeps its position
MapSet(c, entry) ==
    LET i == CacheIndex(c, entry.key) IN
    IF i = 0 THEN Append(c, entry) ELSE [c EXCEPT ![i] = entry]

CacheSetSkipped(c, key, content, t) == c

\* the Map after set(key, content) at time t
CacheAfterSet(c, key, content, t) ==
    LET kept == IF AtCapacity(Len(c)) THEN DeleteAt(c, EvictedPositions(c)) ELSE c
    IN MapSet(kept, CacheEntry(key, content, t))

(***************************************************************************)
(* Configuration (main.ts 118-172).                                        *)
(***************************************************************************)
\* DEFAULT_CONFIG.ollamaModel
DefaultModel == "llama3.2:1b"

\* values of config.ollamaModel: the default, or OLLAMA_MODEL from the environment
ConfiguredModels == {DefaultModel, "llama3.2:3b", "custom:7b"}

\* fallbackModels of answerQuery
fallbackModels(cfg) ==
    <<cfg.ollamaModel, "llama3.2:3b", "llama3.2:1b", "llama3.1:8b",
      "mistral:7b", "qwen2.5:7b">>

(***************************************************************************)
(* Search client: getNewsUrls (main.ts 278-342).                           *)
(*                                                                         *)
(* A URL string is the sequence of its pieces, cut where the patterns of   *)
(* the filter begin and end: "https://reddit.com/r/test" is                *)
(* <<"https://", "reddit.com", "/r/", "test">>.  includes and endsWith are *)
(* computed on the pieces.                                                 *)
(***************************************************************************)
\* result.url values a search response can carry
ResultUrls ==
    { <<"https://", "example.com", "/article">>,
      <<"http://", "test.com", "/page">>,
      <<"https://", "reddit.com", "/r/", "test">>,
      <<"https://", "reddit.com", "/user/", "test">>,
      <<"https://", "twitter.com", "/user/status">>,
      <<"https://", "facebook.com", "/page">>,
      <<"https://", "youtube.com", "/watch", "?v=123">>,
      <<"https://", "example.com", "/doc", ".pdf">>,
      <<"https://", "example.com", "/doc", ".pdf", "?dl=1">>,
      <<"https://", "example.com", "/?ref=", "twitter.com">>,
      <<"ftp://", "example.com">>,
      <<"not-a-url">>,
      <<"http://">>,
      <<>> }

\* schemes the URL parser knows as special: they need a host
SpecialSchemes == {"http://", "https://", "ftp://"}

\* `new URL(url)` does not throw
ParsesAsUrl(url) ==
    /\ Len(url) >= 2
    /\ url[1] \in SpecialSchemes

\* url.includes(pattern)
Includes(url, pattern) ==
    \E i \in 1..Len(url) :
        /\ i + Len(pattern) - 1 <= Len(url)
        /\ SubSeq(url, i, i + Len(pattern) - 1) = pattern

\* url.endsWith(pattern)
EndsWith(url, pattern) ==
    /\ Len(url) >= Len(pattern)
    /\ SubSeq(url, Len(url) - Len(pattern) + 1, Len(url)) = pattern

FilterKeepsPdf(url) ==
    IF ~ParsesAsUrl(url) THEN FALSE
    ELSE /\ ~Includes(url, <<"reddit.com", "/r/">>)
         /\ ~Includes(url, <<"twitter.com">>)
         /\ ~Includes(url, <<"facebook.com">>)
         /\ ~Includes(url, <<"youtube.com", "/watch">>)

\* the callback of results.filter (main.ts 312-324)
Filter(url) ==
    IF ~ParsesAsUrl(url) THEN FALSE
    ELSE /\ ~Includes(url, <<"reddit.com", "/r/">>)
         /\ ~Includes(url, <<"twitter.com">>)
         /\ ~Includes(url, <<"facebook.com">>)
         /\ ~EndsWith(url, <<".pdf">>)
         /\ ~Includes(url, <<"youtube.com", "/watch">>)

SliceAll(a, n) == a

\* array.slice(0, n)
Slice(a, n) == SubSeq(a, 1, IF n < Len(a) THEN n ELSE Len(a))

SliceThenFilter(results, maxResults) ==
    SelectSeq(Slice(results, maxResults), Filter)

\* results.filter(...).map(result => result.url).slice(0, config.maxResults)
FilterThenSlice(results, maxResults) ==
    Slice(SelectSeq(results, Filter), maxResults)

\* what `await searchResults.json()` can resolve with: JSON null, an object
\* without `results`, an object whose `results` is an array of url records
NoResults == [missing |-> "results"]
JsonNull == [json |-> "null"]
WithResults(r) == [results |-> r]

\* why `await searchResults.json()` rejects
BodyFailures == {"malformed JSON", "empty body", "connection reset"}

\* messages of the Errors getNewsUrls throws (main.ts 335-340)
SearchTimedOutMessage == "Search request timed out"
SearchFailedMessage == "Search failed"

\* the throw of the catch block (main.ts 331-341): an AbortError becomes the
\* timeout message
SearchCatch(name) ==
    IF name = "AbortError" THEN SearchTimedOutMessage ELSE SearchFailedMessage

NoSearch ==
    [st |-> "idle", timer |-> "none", status |-> "none", body |-> Null,
     cause |-> "none", thrown |-> "none"]

\* the call up to `await fetch(searchUrl, ...)`: the timer armed
SearchStarted == [NoSearch EXCEPT !.st = "headers", !.timer = "armed"]

SearchThrows(sr, cause, name) ==
    [sr EXCEPT !.st = "threw", !.cause = cause, !.thrown = SearchCatch(name),
               !.timer = IF @ = "fired" THEN "fired" ELSE "cleared"]

SearchAfterHeadersAnyStatus(sr, ok) ==
    [sr EXCEPT !.timer = "cleared", !.status = IF ok THEN "ok" ELSE "not ok",
               !.st = "body"]

\* after `await fetch` resolved (main.ts 296-300): clearTimeout, then the
\* status check, whose Error the catch block rethrows
SearchAfterHeaders(sr, ok) ==
    LET c == [sr EXCEPT !.timer = "cleared",
                        !.status = IF ok THEN "ok" ELSE "not ok"]
    IN IF ~ok THEN SearchThrows(c, "status", "Error")
       ELSE [c EXCEPT !.st = "body"]

\* after `await searchResults.json()` resolved with body (main.ts 303-329):
\* reading `.results` of null throws a TypeError
SearchAfterBody(sr, body) ==
    IF body = JsonNull
    THEN SearchThrows([sr EXCEPT !.body = body], "null body", "TypeError")
    ELSE [sr EXCEPT !.st = "returned", !.body = body]

\* the URLs getNewsUrls returns for a body that is not null
getNewsUrls(body, maxResults) ==
    IF body = NoResults THEN <<>>
    ELSE IF Len(body.results) = 0 THEN <<>>
    ELSE FilterThenSlice(body.results, maxResults)

(***************************************************************************)
(* Remote servers: what a fetch can bring back.                            *)
(***************************************************************************)
UrlIds == 1..MaxUrlId

\* URL lists getNewsUrls can return (repeated URLs are not removed)
UrlLists == UNION {[1..n -> UrlIds] : n \in 0..MaxUrls}

\* the eligible URLs of a search response, before the cut to
\* config.maxResults: up to one more than the cut keeps
FoundLists == UNION {[1..n -> UrlIds] : n \in 0..(MaxUrls + 1)}

\* content-type headers; "" is a missing header (`|| ''`)
ContentTypes == {"text/html; charset=utf-8", "application/xhtml+xml",
                 "application/json", ""}

AcceptsAnyType(contentType) == TRUE

\* contentType.includes('text/html') || contentType.includes('application/xhtml')
IsHypertext(contentType) ==
    contentType \in {"text/html; charset=utf-8", "application/xhtml+xml"}

\* response heads: getUrl.ok and the content-type header
Heads == [ok : BOOLEAN, contentType : ContentTypes]

\* response bodies: the length of the HTML and what Readability makes of it
\* (parse() throws, returns null, or returns an article with textContent of
\* textLength characters)
Pages == [htmlLength : {0, MinHtmlLength - 1, MinHtmlLength},
          parse : {"throws", "null", "article"},
          textLength : {0, MinTextLength - 1, MinTextLength}]

\* cacheKey = `url:${url}`
CacheKey(url) == <<"url:", url>>

\* number of digits of the decimal text of n
RECURSIVE DecimalDigits(_)
DecimalDigits(n) == IF n < 10 THEN 1 ELSE 1 + DecimalDigits(n \div 10)

\* url.length: URL u of the model is `https://example.com/` and u characters
UrlLength(url) == 20 + url

\* length of the string built at main.ts 422-429 around a text: the source
\* line (11 + the URL + 1), the content-length line (19 + the digits + 12),
\* the fetched line (12 + 24 + 1), an empty line, the text, two line ends,
\* the rule of 80 and a line end
ResultLength(url, textLength) ==
    (11 + UrlLength(url) + 1) + (19 + DecimalDigits(textLength) + 12)
        + (12 + 24 + 1) + 1 + textLength + 2 + 80 + 1

\* the attributed document of getCleanedText (main.ts 422-429)
Document(url, textLength, t) ==
    [url |-> url, textLength |-> textLength, fetchedAt |-> t]

\* text.length of a text handed to answerQuery: a document of
\* getCleanedText, or any string, given by its length
StringLength(text) ==
    IF "length" \in DOMAIN text THEN text.length
    ELSE ResultLength(text.url, text.textLength)

(***************************************************************************)
(* Fetch tasks (main.ts 358-447).                                          *)
(***************************************************************************)
\* a task served from the cache: settled before any await
HitTask(url, content) ==
    [url |-> url, st |-> "done", timer |-> "none", result |-> content,
     warn |-> "none", fetched |-> FALSE]

\* a task that missed the cache: its timer armed, its request sent
MissTask(url) ==
    [url |-> url, st |-> "headers", timer |-> "armed", result |-> Null,
     warn |-> "none", fetched |-> TRUE]

StartTasksSequential(us, c, t) ==
    LET F[i \in 0..Len(us)] ==
            IF i = 0 THEN [task |-> <<>>, cache |-> c, hits |-> 0]
            ELSE LET p == F[i - 1]
                     cached == CacheGetValue(p.cache, CacheKey(us[i]), t)
                 IN [task |-> Append(p.task,
                                  IF cached # Null THEN HitTask(us[i], cached)
                                  ELSE MissTask(us[i])),
                     cache |-> IF cached # Null
                               THEN CacheAfterGet(p.cache, CacheKey(us[i]), t)
                               ELSE CacheAfterSet(p.cache, CacheKey(us[i]),
                                                  Document(us[i], MinTextLength, t), t),
                     hits |-> p.hits + (IF cached # Null THEN 1 ELSE 0)]
    IN F[Len(us)]

StartTasksUncounted(us, c, t) ==
    LET F[i \in 0..Len(us)] ==
            IF i = 0 THEN [task |-> <<>>, cache |-> c, hits |-> 0]
            ELSE LET p == F[i - 1]
                     cached == CacheGetValue(p.cache, CacheKey(us[i]), t)
                 IN [task |-> Append(p.task,
                                  IF cached # Null THEN HitTask(us[i], cached)
                                  ELSE MissTask(us[i])),
                     cache |-> CacheAfterGet(p.cache, CacheKey(us[i]), t),
                     hits |-> 0]
    IN F[Len(us)]

\* urls.map(async ...) up to each task's first await, in list order
StartTasks(us, c, t) ==
    LET F[i \in 0..Len(us)] ==
            IF i = 0 THEN [task |-> <<>>, cache |-> c, hits |-> 0]
            ELSE LET p == F[i - 1]
                     cached == CacheGetValue(p.cache, CacheKey(us[i]), t)
                 IN [task |-> Append(p.task,
                                  IF cached # Null THEN HitTask(us[i], cached)
                                  ELSE MissTask(us[i])),
                     cache |-> CacheAfterGet(p.cache, CacheKey(us[i]), t),
                     hits |-> p.hits + (IF cached # Null THEN 1 ELSE 0)]
    IN F[Len(us)]

\* `return null` after a warning
Absent(r, why) ==
    [r EXCEPT !.st = "done", !.result = Null, !.warn = why]

CatchRejects(r, why) ==
    [r EXCEPT !.st = "rejected", !.timer = "cleared", !.warn = why]

CatchRetries(r, why) ==
    [r EXCEPT !.st = "headers", !.timer = "armed", !.warn = why]

\* the catch block of a task (main.ts 436-446): clearTimeout, a warning, null
Catch(r, why) ==
    [Absent(r, why) EXCEPT !.timer = IF r.timer = "fired" THEN "fired" ELSE "cleared"]

\* the task after `await fetch` resolved with head h (main.ts 391-405)
AfterHeaders(r, h) ==
    LET c == [r EXCEPT !.timer = "cleared"] IN
    IF ~h.ok THEN Absent(c, "http_status")
    ELSE IF ~IsHypertext(h.contentType) THEN Absent(c, "content_type")
    ELSE [c EXCEPT !.st = "body"]

\* htmlToText (main.ts 470-502): parse() throws, or returns null and
\* text.textContent throws, or the text comes back
HtmlToTextThrows(page) == page.parse \in {"throws", "null"}

\* the task after `await getUrl.text()` resolved with page (main.ts 405-434)
AfterBody(r, page, t) ==
    IF page.htmlLength < MinHtmlLength THEN Absent(r, "body_short")
    ELSE IF HtmlToTextThrows(page)
         THEN Catch(r, IF page.parse = "throws" THEN "extractor_threw"
                       ELSE "extractor_null")
    ELSE IF page.textLength < MinTextLength THEN Absent(r, "text_short")
    ELSE [r EXCEPT !.st = "done", !.result = Document(r.url, page.textLength, t)]

AbortTargetsShared(t, i) ==
    {j \in 1..Len(t) : t[j].st \in {"headers", "body"}}

\* tasks whose request controller.abort() of task i's timer aborts: each task
\* has its own AbortController (main.ts 368-369, 376)
AbortTargets(t, i) ==
    {j \in {i} : t[j].st \in {"headers", "body"}}

JoinReadyAny(t) == \E i \in 1..Len(t) : t[i].st = "done"

\* Promise.all(fetchPromises) resolves when every task has resolved
JoinReady(t) == \A i \in 1..Len(t) : t[i].st = "done"

\* Promise.all rejects as soon as one task has rejected
JoinRejected(t) == \E i \in 1..Len(t) : t[i].st = "rejected"

SuccessfulTextsOrNothing(t) ==
    IF \E i \in 1..Len(t) : t[i].result = Null THEN <<>>
    ELSE [i \in 1..Len(t) |-> t[i].result]

SuccessfulTextsLastFirst(t) ==
    LET F[i \in 0..Len(t)] ==
            IF i = 0 THEN <<>>
            ELSE IF t[i].st = "done" /\ t[i].result # Null
                 THEN <<t[i].result>> \o F[i - 1]
                 ELSE F[i - 1]
    IN F[Len(t)]

\* results.filter(text => text !== null) (main.ts 453)
SuccessfulTexts(t) ==
    LET F[i \in 0..Len(t)] ==
            IF i = 0 THEN <<>>
            ELSE IF t[i].st = "done" /\ t[i].result # Null
                 THEN Append(F[i - 1], t[i].result)
                 ELSE F[i - 1]
    IN F[Len(t)]

(***************************************************************************)
(* Inference backend: what ollama.generate can do.                         *)
(***************************************************************************)
\* messages of the errors a generation attempt can raise
Errors == {"model 'x' not found", "connect ECONNREFUSED", "unexpected EOF"}

\* message.includes('model') && message.includes('not found')
IsModelNotFound(e) == e = "model 'x' not found"

\* message.includes('connect') || message.includes('ECONNREFUSED')
IsConnectionError(e) == e = "connect ECONNREFUSED"

\* chunks of the response stream: whether chunk.response is a non-empty
\* string, and chunk.done
Chunks == [response : BOOLEAN, done : BOOLEAN]

ContinuesOnKnownErrors(e) == IsModelNotFound(e) \/ IsConnectionError(e)

\* whether the catch block of the fallback loop goes on to the next model
\* (main.ts 609-621): every branch is `continue`
Continues(e) ==
    IF IsModelNotFound(e) THEN TRUE
    ELSE IF IsConnectionError(e) THEN TRUE
    ELSE TRUE

\* the Error thrown when the loop is exhausted (main.ts 634)
AllFailedMessage == "AI response generation failed with all available models"

NoReport ==
    [outcome |-> "none", thrown |-> "none", cause |-> "none", lastErrorLine |-> "none"]

(***************************************************************************)
(* Configuration loading (main.ts 118-183) and the command line wrapper    *)
(* (cli.ts 81-112, 154-174, 190-263).                                      *)
(*                                                                         *)
(* A text the code looks inside (parseInt, the number test of parseArgs)   *)
(* is the sequence of its characters; a URL is the sequence of its pieces  *)
(* as above; a file name is the sequence of its pieces between the dots;   *)
(* a text the code only compares or passes on is a string.  The empty text *)
(* is <<>> or "": `if (Deno.env.get(..))` and `if (options.x)` treat it as *)
(* they treat a missing value.  A flag of the command line is <<>> when it *)
(* is not given and <<v>> when it is given with value v.                   *)
(***************************************************************************)
Digits == <<"0", "1", "2", "3", "4", "5", "6", "7", "8", "9">>

IsDigit(ch) == \E d \in 1..10 : Digits[d] = ch

DigitValue(ch) == (CHOOSE d \in 1..10 : Digits[d] = ch) - 1

\* number of digits text starts with
LeadingDigits(text) ==
    CHOOSE k \in 0..Len(text) :
        /\ \A j \in 1..k : IsDigit(text[j])
        /\ k = Len(text) \/ ~IsDigit(text[k + 1])

\* the number the first n characters of text (digits) denote
DecimalValue(text, n) ==
    LET F[i \in 0..n] == IF i = 0 THEN 0 ELSE 10 * F[i - 1] + DigitValue(text[i])
    IN F[n]

\* parseInt(text): an optional sign, then the digits up to the first other
\* character; NaN when there is no digit
ParseInt(text) ==
    LET signed == Len(text) > 0 /\ text[1] \in {"-", "+"}
        rest == IF signed THEN Tail(text) ELSE text
        n == LeadingDigits(rest)
    IN IF n = 0 THEN [nan |-> TRUE, value |-> 0]
       ELSE [nan |-> FALSE,
             value |-> IF text[1] = "-" THEN 0 - DecimalValue(rest, n)
                       ELSE DecimalValue(rest, n)]

\* the decimal text of a natural number
RECURSIVE NatToText(_)
NatToText(n) ==
    IF n < 10 THEN <<Digits[n + 1]>>
    ELSE Append(NatToText(n \div 10), Digits[(n % 10) + 1])

\* Number.prototype.toString() of an integer
NumberToString(n) == IF n < 0 THEN <<"-">> \o NatToText(0 - n) ELSE NatToText(n)

\* DEFAULT_CONFIG (main.ts 128-135)
DEFAULT_CONFIG ==
    [searchUrl |-> <<"http://", "localhost:9999/search">>,
     maxResults |-> 5,
     ollamaModel |-> DefaultModel,
     timeout |-> 30000,
     retryAttempts |-> 3,
     outputFormat |-> "console"]

\* loadConfig (main.ts 137-170) under environment e: the configuration and
\* the variables a warning was logged for, in order
loadConfig(e) ==
    LET urlGiven == e.SEARCH_URL # <<>>
        urlValid == ParsesAsUrl(e.SEARCH_URL)
        maxGiven == e.MAX_RESULTS # <<>>
        maxResults == ParseInt(e.MAX_RESULTS)
        maxValid == ~maxResults.nan /\ maxResults.value > 0 /\ maxResults.value <= 20
        timeout == ParseInt(e.TIMEOUT)
        timeoutTaken == e.TIMEOUT # <<>> /\ ~timeout.nan /\ timeout.value > 0
    IN [config |->
            [searchUrl |-> IF urlGiven /\ urlValid THEN e.SEARCH_URL
                           ELSE DEFAULT_CONFIG.searchUrl,
             maxResults |-> IF maxGiven /\ maxValid THEN maxResults.value
                            ELSE DEFAULT_CONFIG.maxResults,
             ollamaModel |-> IF e.OLLAMA_MODEL # "" THEN e.OLLAMA_MODEL
                             ELSE DEFAULT_CONFIG.ollamaModel,
             timeout |-> IF timeoutTaken THEN timeout.value
                         ELSE DEFAULT_CONFIG.timeout,
             retryAttempts |-> DEFAULT_CONFIG.retryAttempts,
             outputFormat |-> DEFAULT_CONFIG.outputFormat],
        warnings |->
            (IF urlGiven /\ ~urlValid THEN <<"SEARCH_URL">> ELSE <<>>)
            \o (IF maxGiven /\ ~maxValid THEN <<"MAX_RESULTS">> ELSE <<>>)]

\* a value of an option parseArgs did not declare as a string: a number or
\* a text
Num(n) == [type |-> "number", num |-> n, text |-> <<>>]
Str(t) == [type |-> "string", num |-> 0, text |-> t]

\* the number test of parseArgs on the texts of the model: digits only
IsNumber(text) == Len(text) > 0 /\ LeadingDigits(text) = Len(text)

\* the value parseArgs gives an undeclared flag: its default when the flag
\* is not given, a number when the text is one, else the text
ArgValue(flag, default) ==
    IF flag = <<>> THEN Num(default)
    ELSE IF IsNumber(flag[1]) THEN Num(DecimalValue(flag[1], Len(flag[1])))
    ELSE Str(flag[1])

\* parseCliArgs (cli.ts 81-112): the defaults fill in what was not given
parseCliArgs(a) ==
    [query |-> a.query,
     model |-> IF a.model = <<>> THEN "" ELSE a.model[1],
     results |-> ArgValue(a.results, 5),
     timeout |-> ArgValue(a.timeout, 30000),
     format |-> IF a.format = <<>> THEN "console" ELSE a.format[1],
     save |-> IF a.save = <<>> THEN <<>> ELSE a.save[1]]

\* `if (v)` for a number or a text
Truthy(v) == IF v.type = "number" THEN v.num # 0 ELSE v.text # <<>>

\* v < n and v > n of JavaScript for a number n: a text that is not a number
\* compares false both ways
LessThan(v, n) == v.type = "number" /\ v.num < n
GreaterThan(v, n) == v.type = "number" /\ v.num > n

\* the formats validateOptions accepts
Formats == {"console", "json", "markdown", "html", "text"}

\* validateOptions (cli.ts 154-174): the errors, by the option they are about
validateOptions(o) ==
    (IF o.query = "" THEN {"query"} ELSE {})
    \cup (IF Truthy(o.results) /\ (LessThan(o.results, 1) \/ GreaterThan(o.results, 20))
          THEN {"results"} ELSE {})
    \cup (IF o.format # "" /\ o.format \notin Formats THEN {"format"} ELSE {})
    \cup (IF Truthy(o.timeout) /\ LessThan(o.timeout, 1000) THEN {"timeout"} ELSE {})

\* v.toString()
toString(v) == IF v.type = "number" THEN NumberToString(v.num) ELSE v.text

\* Deno.env after the Deno.env.set calls of cli.ts 219-230 (LOG_LEVEL,
\* which main.ts does not read, is left out)
EnvAfterCli(e, o) ==
    [e EXCEPT !.OLLAMA_MODEL = IF o.model # "" THEN o.model ELSE @,
              !.MAX_RESULTS = IF Truthy(o.results) THEN toString(o.results) ELSE @,
              !.TIMEOUT = IF Truthy(o.timeout) THEN toString(o.timeout) ELSE @,
              !.OUTPUT_FORMAT = IF o.format # "" THEN o.format ELSE @]

\* String.prototype.toLowerCase() on the pieces of the file names of the model
ToLowerCase(piece) ==
    CASE piece = "MD" -> "md"
      [] piece = "Json" -> "json"
      [] OTHER -> piece

\* options.save.split('.').pop()?.toLowerCase()
Extension(save) == ToLowerCase(save[Len(save)])

\* the switch of cli.ts 238-254: the format of an extension, "" when the
\* switch has no case for it
FormatOfExtension(ext) ==
    CASE ext = "json" -> "json"
      [] ext \in {"md", "markdown"} -> "markdown"
      [] ext \in {"html", "htm"} -> "html"
      [] ext \in {"txt", "text"} -> "text"
      [] OTHER -> ""

\* whether cli.ts detects the format from the file name: options.save is set
\* and options.format is not (cli.ts 235)
DetectsFormat(o) == o.save # <<>> /\ o.format = ""

\* options after the detection (cli.ts 234-255)
AfterDetection(o) ==
    IF DetectsFormat(o) /\ FormatOfExtension(Extension(o.save)) # ""
    THEN [o EXCEPT !.format = FormatOfExtension(Extension(o.save))]
    ELSE o

\* values of MAX_RESULTS and TIMEOUT in the environment
MaxResultsTexts ==
    {<<>>, <<"1">>, <<"2", "0">>, <<"2", "1">>, <<"0">>, <<"-", "1">>,
     <<"a", "b", "c">>}
TimeoutTexts ==
    {<<>>, <<"1", "0", "0", "0">>, <<"9", "9", "9">>, <<"5", "0", "0">>,
     <<"0">>, <<"-", "1">>, <<"a", "b", "c">>}

\* environments main.ts is started in
Environments ==
    [SEARCH_URL : {<<>>, <<"http://", "searx.local/search">>, <<"not-a-url">>},
     MAX_RESULTS : MaxResultsTexts,
     TIMEOUT : TimeoutTexts,
     OUTPUT_FORMAT : {"", "json", "xml"},
     OLLAMA_MODEL : {"", "custom:7b"}]

\* the environment with nothing set
NoEnv ==
    [SEARCH_URL |-> <<>>, MAX_RESULTS |-> <<>>, TIMEOUT |-> <<>>,
     OUTPUT_FORMAT |-> "", OLLAMA_MODEL |-> ""]

\* file names of --save
SaveFiles ==
    {<<"report", "md">>, <<"report", "MD">>, <<"notes", "markdown">>,
     <<"data", "json">>, <<"page", "html">>, <<"page", "htm">>,
     <<"notes", "txt">>, <<"notes", "text">>, <<"backup", "tar", "gz">>,
     <<"results">>}

\* command lines of cli.ts: cli is FALSE when main.ts is run directly
CommandLines ==
    [cli : {TRUE},
     query : {"", "q"},
     model : {<<>>, <<"custom:7b">>},
     results : {<<>>, <<<<"1">>>>, <<<<"2", "5">>>>, <<<<"0">>>>, <<<<"a", "b", "c">>>>},
     timeout : {<<>>, <<<<"1", "0", "0", "0">>>>, <<<<"5", "0", "0">>>>,
                <<<<"a", "b", "c">>>>},
     format : {<<>>, <<"json">>, <<"xml">>, <<"">>},
     save : {<<>>} \cup {<<f>> : f \in SaveFiles}]

\* main.ts run directly with arguments that join to query
Direct(query) ==
    [cli |-> FALSE, query |-> query, model |-> <<>>, results |-> <<>>,
     timeout |-> <<>>, format |-> <<>>, save |-> <<>>]

NoOptions ==
    [query |-> "", model |-> "", results |-> Num(0), timeout |-> Num(0),
     format |-> "", save |-> <<>>]

NoServed == [fetch |-> "none"]

\* the host variables in the specifications that start after the
\* configuration is loaded
HostIdle ==
    /\ served = NoServed
    /\ argv = Direct("q")
    /\ env = NoEnv
    /\ options = NoOptions
    /\ logged = <<>>

(***************************************************************************)
(* The run: main() (main.ts 185-248).                                      *)
(***************************************************************************)
Init ==
    /\ cache = <<>>
    /\ now = 0
    /\ config \in [ollamaModel : ConfiguredModels, maxResults : {MaxUrls}]
    /\ metrics = [totalUrls |-> 0, successfulUrls |-> 0, cacheHits |-> 0,
                  totalTokens |-> 0]
    /\ pc = "search"
    /\ urls = <<>>
    /\ task = <<>>
    /\ alltexts = <<>>
    /\ modelIdx = 0
    /\ gen = "idle"
    /\ attemptedModels = <<>>
    /\ failedModels = <<>>
    /\ lastError = "none"
    /\ hasStarted = FALSE
    /\ tokenCount = 0
    /\ contextSize = 0
    /\ numCtx = <<>>
    /\ stdout = <<>>
    /\ report = NoReport
    /\ shown = 0
    /\ lastGet = [op |-> "none", key |-> 0, value |-> Null, at |-> 0]
    /\ ops = 0
    /\ search = NoSearch
    /\ firstCall = <<>>
    /\ HostIdle

aiVars == <<modelIdx, gen, attemptedModels, failedModels, lastError, hasStarted,
            tokenCount, contextSize, numCtx, stdout>>

MainCatchWithoutExit(message, cause, lastLine) ==
    /\ pc' = "done"
    /\ report' = [outcome |-> "error", thrown |-> message, cause |-> cause,
                  lastErrorLine |-> lastLine]
    /\ shown' = shown + 1

\* the catch block of main (main.ts 234-247) for a thrown Error with this
\* message, in which the message of the error `cause` is quoted ("none": of no
\* error): the error is logged, the metrics are displayed and the process
\* exits with code 1.  lastLine is the `Last error:` line printed before the
\* throw, "none" when there was none
MainCatch(message, cause, lastLine) ==
    /\ pc' = "exit1"
    /\ report' = [outcome |-> "error", thrown |-> message, cause |-> cause,
                  lastErrorLine |-> lastLine]
    /\ shown' = shown + 1

MainEndsWithoutReport(outcome) ==
    /\ pc' = "done"
    /\ report' = [NoReport EXCEPT !.outcome = outcome]
    /\ shown' = shown

\* a graceful end of main: a message, then displayMetrics()
MainEnds(outcome) ==
    /\ pc' = "done"
    /\ report' = [NoReport EXCEPT !.outcome = outcome]
    /\ shown' = shown + 1

NoUrlsNever(us) == FALSE

\* urls.length === 0 (main.ts 199)
NoUrls(us) == Len(us) = 0

NoContentNever(texts) == FALSE

\* alltexts.length === 0 (main.ts 212)
NoContent(texts) == Len(texts) = 0

\* getNewsUrls throws (timeout, bad status, malformed JSON): main.ts 331-341
SearchFails(message) ==
    /\ pc = "search"
    /\ MainCatch(message, "none", "none")
    /\ UNCHANGED <<cache, now, config, metrics, urls, task, alltexts, aiVars,
                   lastGet, ops, search, firstCall, hostVars>>

\* getNewsUrls returns us, the eligible URLs it found cut to
\* config.maxResults (main.ts 326); main counts them and, unless there are
\* none, calls getCleanedText, which starts one task per URL (main.ts
\* 196-209, 350-389)
SearchReturns(us) ==
    /\ pc = "search"
    /\ urls' = us
    /\ metrics' = [metrics EXCEPT !.totalUrls = Len(us),
                                  !.cacheHits = @ + StartTasks(us, cache, now).hits]
    /\ IF NoUrls(us)
       THEN /\ MainEnds("no_results")
            /\ UNCHANGED <<cache, task>>
       ELSE /\ task' = StartTasks(us, cache, now).task
            /\ cache' = StartTasks(us, cache, now).cache
            /\ pc' = "fetch"
            /\ UNCHANGED <<report, shown>>
    /\ UNCHANGED <<now, config, alltexts, aiVars, lastGet, ops, search, firstCall, hostVars>>

\* `await fetch(url, ...)` of task i resolves with head h
HeadersArrive(i, h) ==
    /\ i \in 1..Len(task)
    /\ task[i].st = "headers"
    /\ task' = [task EXCEPT ![i] = AfterHeaders(task[i], h)]
    /\ UNCHANGED <<cache, now, config, metrics, pc, urls, alltexts, aiVars,
                   report, shown, lastGet, ops, search, firstCall, hostVars>>

\* `await fetch(url, ...)` of task i rejects with a network error
FetchRejects(i) ==
    /\ i \in 1..Len(task)
    /\ task[i].st = "headers"
    /\ task' = [task EXCEPT ![i] = Catch(task[i], "network")]
    /\ UNCHANGED <<cache, now, config, metrics, pc, urls, alltexts, aiVars,
                   report, shown, lastGet, ops, search, firstCall, hostVars>>

\* the timer of task i fires: controller.abort(), the pending request rejects
\* with an AbortError and the catch block runs
TimerFires(i) ==
    /\ i \in 1..Len(task)
    /\ task[i].timer = "armed"
    /\ task' = [j \in 1..Len(task) |->
                   IF j \in AbortTargets(task, i)
                   THEN Catch([task[j] EXCEPT !.timer =
                                  IF j = i THEN "fired" ELSE @], "timeout")
                   ELSE IF j = i THEN [task[j] EXCEPT !.timer = "fired"]
                   ELSE task[j]]
    /\ UNCHANGED <<cache, now, config, metrics, pc, urls, alltexts, aiVars,
                   report, shown, lastGet, ops, search, firstCall, hostVars>>

\* `await getUrl.text()` of task i resolves with page; a document is cached
BodyArrives(i, page) ==
    /\ i \in 1..Len(task)
    /\ task[i].st = "body"
    /\ task' = [task EXCEPT ![i] = AfterBody(task[i], page, now)]
    /\ cache' = IF AfterBody(task[i], page, now).result # Null
                THEN CacheAfterSet(cache, CacheKey(task[i].url),
                                   AfterBody(task[i], page, now).result, now)
                ELSE cache
    /\ UNCHANGED <<now, config, metrics, pc, urls, alltexts, aiVars,
                   report, shown, lastGet, ops, search, firstCall, hostVars>>

\* `await getUrl.text()` of task i rejects: the connection broke
BodyRejects(i) ==
    /\ i \in 1..Len(task)
    /\ task[i].st = "body"
    /\ task' = [task EXCEPT ![i] = Catch(task[i], "network")]
    /\ UNCHANGED <<cache, now, config, metrics, pc, urls, alltexts, aiVars,
                   report, shown, lastGet, ops, search, firstCall, hostVars>>

\* the promises of a call are local to it: when getCleanedText returns, the
\* settled ones are dropped; a task that has not settled would go on running
StillRunning(t) == SelectSeq(t, LAMBDA r : r.st \in {"headers", "body"})

\* texts.join("\n").length
ContentLength(texts) ==
    LET F[i \in 0..Len(texts)] ==
            IF i = 0 THEN 0
            ELSE F[i - 1] + StringLength(texts[i]) + (IF i > 1 THEN 1 ELSE 0)
    IN F[Len(texts)]

ContextSizeInclusive(contentLength) ==
    IF contentLength >= 100000 THEN 65536
    ELSE IF contentLength >= 50000 THEN 32000
    ELSE 16000

\* contextSize of answerQuery (main.ts 528-531)
ContextSize(contentLength) ==
    IF contentLength > 100000 THEN 65536
    ELSE IF contentLength > 50000 THEN 32000
    ELSE 16000

\* the first generate call of answerQuery (main.ts 510-579)
FirstAttempt ==
    /\ modelIdx' = 1
    /\ gen' = "request"
    /\ attemptedModels' = <<fallbackModels(config)[1]>>
    /\ contextSize' = ContextSize(ContentLength(alltexts'))
    /\ numCtx' = <<ContextSize(ContentLength(alltexts'))>>
    /\ UNCHANGED <<failedModels, lastError, hasStarted, tokenCount, stdout>>

\* Promise.all settles: getCleanedText returns the documents (or throws),
\* main counts them and, unless there are none, calls answerQuery
\* (main.ts 450-461, 210-225)
Join ==
    /\ pc = "fetch"
    /\ IF JoinRejected(task) THEN TRUE ELSE JoinReady(task)
    /\ IF JoinRejected(task)
       THEN /\ MainCatch("fetch task rejected", "none", "none")
            /\ UNCHANGED <<alltexts, metrics, aiVars>>
       ELSE /\ alltexts' = SuccessfulTexts(task)
            /\ metrics' = [metrics EXCEPT !.successfulUrls = Len(SuccessfulTexts(task))]
            /\ IF NoContent(SuccessfulTexts(task))
               THEN /\ MainEnds("no_content")
                    /\ UNCHANGED aiVars
               ELSE /\ pc' = "ai"
                    /\ FirstAttempt
                    /\ UNCHANGED <<report, shown>>
    /\ task' = StillRunning(task)
    /\ UNCHANGED <<cache, now, config, urls, lastGet, ops, search, firstCall, hostVars>>

(***************************************************************************)
(* answerQuery: the fallback loop (main.ts 560-635).                       *)
(***************************************************************************)
KeepsFirstError(old, e) == IF old = "none" THEN e ELSE old

\* lastError = error as Error (main.ts 606)
CaughtError(old, e) == e

\* the catch block of the loop for error e of the current attempt, then the
\* next iteration; after the last model: the report and the throw, which main
\* catches (main.ts 605-634, 234-246)
AttemptFailed(e) ==
    LET chain == fallbackModels(config)
        last == CaughtError(lastError, e)
    IN
    /\ lastError' = last
    /\ failedModels' = Append(failedModels, chain[modelIdx])
    /\ IF Continues(e) /\ modelIdx < Len(chain)
       THEN /\ modelIdx' = modelIdx + 1
            /\ gen' = "request"
            /\ attemptedModels' = Append(attemptedModels, chain[modelIdx + 1])
            /\ numCtx' = Append(numCtx, contextSize)
            /\ UNCHANGED <<pc, report, shown>>
       ELSE /\ gen' = "threw"
            /\ MainCatch(IF Continues(e) THEN AllFailedMessage ELSE e, "none",
                         IF Continues(e) THEN last ELSE "none")
            /\ UNCHANGED <<modelIdx, attemptedModels, numCtx>>
    /\ UNCHANGED <<contextSize, hasStarted, tokenCount, stdout>>

\* answerQuery returns; main prints the success banner and the metrics
\* (main.ts 226-232)
AnswerReturns ==
    /\ gen' = "returned"
    /\ MainEnds("success")

\* `await ollama.generate(...)` rejects with error e
GenerateRejects(e) ==
    /\ pc = "ai"
    /\ gen = "request"
    /\ AttemptFailed(e)
    /\ UNCHANGED <<cache, now, config, metrics, urls, task, alltexts, lastGet, ops, search, firstCall, hostVars>>

\* `await ollama.generate(...)` resolves with the response stream
GenerateResolves ==
    /\ pc = "ai"
    /\ gen = "request"
    /\ gen' = "stream"
    /\ hasStarted' = FALSE
    /\ tokenCount' = 0
    /\ UNCHANGED <<cache, now, config, metrics, pc, urls, task, alltexts, modelIdx,
                   attemptedModels, failedModels, lastError, contextSize, numCtx,
                   stdout, report, shown, lastGet, ops, search, firstCall, hostVars>>

\* a fragment as it is written to stdout: the attempt it came from
Fragment(idx) == [attempt |-> idx, model |-> fallbackModels(config)[idx]]

\* whether the loop body writes the chunk (main.ts 591)
Written(chunk) == chunk.done # TRUE /\ chunk.response

\* the stream yields chunk (main.ts 585-601)
StreamChunk(chunk) ==
    /\ pc = "ai"
    /\ gen = "stream"
    /\ Written(chunk) => Len(stdout) < MaxOut
    /\ hasStarted' = TRUE
    /\ tokenCount' = IF Written(chunk) THEN tokenCount + 1 ELSE tokenCount
    /\ stdout' = IF Written(chunk) THEN Append(stdout, Fragment(modelIdx)) ELSE stdout
    /\ IF chunk.done
       THEN /\ metrics' = [metrics EXCEPT !.totalTokens = tokenCount']
            /\ AnswerReturns
       ELSE UNCHANGED <<metrics, gen, pc, report, shown>>
    /\ UNCHANGED <<cache, now, config, urls, task, alltexts, modelIdx,
                   attemptedModels, failedModels, lastError, contextSize, numCtx,
                   lastGet, ops, search, firstCall, hostVars>>

\* the stream ends without a done chunk (main.ts 603)
StreamEnds ==
    /\ pc = "ai"
    /\ gen = "stream"
    /\ AnswerReturns
    /\ UNCHANGED <<cache, now, config, metrics, urls, task, alltexts, modelIdx,
                   attemptedModels, failedModels, lastError, hasStarted, tokenCount,
                   contextSize, numCtx, stdout, lastGet, ops, search, firstCall,
                   hostVars>>

\* the stream raises error e while it is consumed
StreamThrows(e) ==
    /\ pc = "ai"
    /\ gen = "stream"
    /\ AttemptFailed(e)
    /\ UNCHANGED <<cache, now, config, metrics, urls, task, alltexts, lastGet, ops, search, firstCall, hostVars>>

Next ==
    \/ \E m \in {SearchTimedOutMessage, SearchFailedMessage} : SearchFails(m)
    \/ /\ pc = "search"
       /\ \E found \in FoundLists : SearchReturns(Slice(found, config.maxResults))
    \/ \E i \in 1..MaxUrls, h \in Heads : HeadersArrive(i, h)
    \/ \E i \in 1..MaxUrls : FetchRejects(i)
    \/ \E i \in 1..MaxUrls : TimerFires(i)
    \/ \E i \in 1..MaxUrls, page \in Pages : BodyArrives(i, page)
    \/ \E i \in 1..MaxUrls : BodyRejects(i)
    \/ Join
    \/ \E e \in Errors : GenerateRejects(e)
    \/ GenerateResolves
    \/ \E chunk \in Chunks : StreamChunk(chunk)
    \/ StreamEnds
    \/ \E e \in Errors : StreamThrows(e)

Spec == Init /\ [][Next]_vars

(***************************************************************************)
(* SimpleCache on its own: get and set called in any order on a cache      *)
(* that earlier set calls have filled.                                     *)
(***************************************************************************)
\* how earlier calls filled the cache with keys 1..n by time maxSize:
\*   steady     set(1), ..., set(n), one call per millisecond
\*   burst      set(1), ..., set(n), all in one millisecond
\*   refreshed  steady, then set(1) once more: the first key of the Map holds
\*              the newest entry
Patterns == {"steady", "burst", "refreshed"}

Prefilled(n, pattern) ==
    [i \in 1..n |->
        [key |-> i, content |-> [page |-> "A"],
         timestamp |-> IF pattern = "burst" THEN maxSize
                       ELSE IF pattern = "refreshed" /\ i = 1 THEN maxSize
                       ELSE maxSize - n - 1 + i,
         hits |-> 0]]

PrefillSizes == {0} \cup {n \in 0..maxSize : n >= maxSize - MaxGap}

\* keys of the calls: the first key set, the key that fills the cache, a new key
TestKeys == {1, maxSize, maxSize + 1}

\* content of the set calls: another page than the one the cache was filled with
Contents == {[page |-> "B"]}

InitCache ==
    /\ \E n \in PrefillSizes, pattern \in Patterns : cache = Prefilled(n, pattern)
    /\ now = maxSize
    /\ config = [ollamaModel |-> DefaultModel]
    /\ metrics = [totalUrls |-> 0, successfulUrls |-> 0, cacheHits |-> 0,
                  totalTokens |-> 0]
    /\ pc = "search"
    /\ urls = <<>>
    /\ task = <<>>
    /\ alltexts = <<>>
    /\ modelIdx = 0
    /\ gen = "idle"
    /\ attemptedModels = <<>>
    /\ failedModels = <<>>
    /\ lastError = "none"
    /\ hasStarted = FALSE
    /\ tokenCount = 0
    /\ contextSize = 0
    /\ numCtx = <<>>
    /\ stdout = <<>>
    /\ report = NoReport
    /\ shown = 0
    /\ lastGet = [op |-> "none", key |-> 0, value |-> Null, at |-> 0]
    /\ ops = 0
    /\ search = NoSearch
    /\ firstCall = <<>>
    /\ HostIdle

\* clock values of a behaviour, counted from its start: up to MaxLate, and
\* from the time to live to MaxLate past it
ClockOffsets == (0..MaxLate) \cup (ttl..(ttl + MaxLate))

\* time passes: a millisecond, or the time to live
CacheTick(d) ==
    /\ now + d - maxSize \in ClockOffsets
    /\ now' = now + d
    /\ UNCHANGED <<cache, lastGet, ops, runVars>>

\* cache.get(key)
CacheGet(key) ==
    /\ ops < MaxOps
    /\ ops' = ops + 1
    /\ lastGet' = [op |-> "get", key |-> key, value |-> CacheGetValue(cache, key, now),
                   at |-> now]
    /\ cache' = CacheAfterGet(cache, key, now)
    /\ UNCHANGED <<now, runVars>>

\* cache.set(key, content)
CacheSet(key, content) ==
    /\ ops < MaxOps
    /\ ops' = ops + 1
    /\ lastGet' = [op |-> "set", key |-> key, value |-> content, at |-> now]
    /\ cache' = CacheAfterSet(cache, key, content, now)
    /\ UNCHANGED <<now, runVars>>

NextCache ==
    \/ \E d \in {1, ttl} : CacheTick(d)
    \/ \E key \in TestKeys : CacheGet(key)
    \/ \E key \in TestKeys, content \in Contents : CacheSet(key, content)

SpecCache == InitCache /\ [][NextCache]_vars

(***************************************************************************)
(* getNewsUrls on its own: one call, against a backend that answers with   *)
(* any status and any body, or not in time.                                *)
(***************************************************************************)
InitSearch ==
    /\ cache = <<>>
    /\ now = 0
    /\ config \in [ollamaModel : {DefaultModel}, maxResults : 1..MaxResultsBound]
    /\ metrics = [totalUrls |-> 0, successfulUrls |-> 0, cacheHits |-> 0,
                  totalTokens |-> 0]
    /\ pc = "search"
    /\ urls = <<>>
    /\ task = <<>>
    /\ alltexts = <<>>
    /\ modelIdx = 0
    /\ gen = "idle"
    /\ attemptedModels = <<>>
    /\ failedModels = <<>>
    /\ lastError = "none"
    /\ hasStarted = FALSE
    /\ tokenCount = 0
    /\ contextSize = 0
    /\ numCtx = <<>>
    /\ stdout = <<>>
    /\ report = NoReport
    /\ shown = 0
    /\ lastGet = [op |-> "none", key |-> 0, value |-> Null, at |-> 0]
    /\ ops = 0
    /\ search = SearchStarted
    /\ firstCall = <<>>
    /\ HostIdle

searchFrame == <<cache, now, config, metrics, pc, task, alltexts, aiVars, report,
                 shown, lastGet, ops, firstCall, hostVars>>

\* `await fetch(searchUrl, ...)` resolves with a response whose ok is `ok`
SearchHeadersArrive(ok) ==
    /\ search.st = "headers"
    /\ search' = SearchAfterHeaders(search, ok)
    /\ UNCHANGED <<urls, searchFrame>>

\* `await fetch(searchUrl, ...)` rejects with a network error
SearchFetchRejects ==
    /\ search.st = "headers"
    /\ search' = SearchThrows(search, "network", "TypeError")
    /\ UNCHANGED <<urls, searchFrame>>

\* the timer fires: controller.abort(), the fetch rejects with an AbortError
SearchTimerFires ==
    /\ search.timer = "armed"
    /\ search.st = "headers"
    /\ search' = SearchThrows([search EXCEPT !.timer = "fired"], "timeout", "AbortError")
    /\ UNCHANGED <<urls, searchFrame>>

\* `await searchResults.json()` resolves with body
SearchBodyArrives(body) ==
    /\ search.st = "body"
    /\ search' = SearchAfterBody(search, body)
    /\ urls' = IF SearchAfterBody(search, body).st = "returned"
               THEN getNewsUrls(body, config.maxResults)
               ELSE urls
    /\ UNCHANGED searchFrame

\* `await searchResults.json()` rejects: the body is not JSON, is empty, or
\* did not arrive
SearchBodyRejects(cause) ==
    /\ search.st = "body"
    /\ search' = SearchThrows(search, cause, "SyntaxError")
    /\ UNCHANGED <<urls, searchFrame>>

NextSearch ==
    \/ \E ok \in BOOLEAN : SearchHeadersArrive(ok)
    \/ SearchFetchRejects
    \/ SearchTimerFires
    \/ \E body \in {JsonNull, NoResults} : SearchBodyArrives(body)
    \/ /\ search.st = "body"
       /\ \E n \in 0..MaxHits : \E r \in [1..n -> ResultUrls] :
             SearchBodyArrives(WithResults(r))
    \/ \E cause \in BodyFailures : SearchBodyRejects(cause)

SpecSearch == InitSearch /\ [][NextSearch]_vars

(***************************************************************************)
(* getCleanedText called twice with the same URL list in one process: the  *)
(* second call finds the cache as the first call left it.  The clock runs  *)
(* during the first call and between the calls.                            *)
(***************************************************************************)
InitWarm ==
    /\ cache = <<>>
    /\ now = 0
    /\ config = [ollamaModel |-> DefaultModel]
    /\ metrics = [totalUrls |-> 0, successfulUrls |-> 0, cacheHits |-> 0,
                  totalTokens |-> 0]
    /\ pc = "start"
    /\ urls = <<>>
    /\ task = <<>>
    /\ alltexts = <<>>
    /\ modelIdx = 0
    /\ gen = "idle"
    /\ attemptedModels = <<>>
    /\ failedModels = <<>>
    /\ lastError = "none"
    /\ hasStarted = FALSE
    /\ tokenCount = 0
    /\ contextSize = 0
    /\ numCtx = <<>>
    /\ stdout = <<>>
    /\ report = NoReport
    /\ shown = 0
    /\ lastGet = [op |-> "none", key |-> 0, value |-> Null, at |-> 0]
    /\ ops = 0
    /\ search = NoSearch
    /\ firstCall = <<>>
    /\ HostIdle

warmFrame == <<config, aiVars, report, shown, lastGet, ops, search, hostVars>>

\* time passes: a millisecond during the first call, a millisecond or the
\* time to live between the calls
WarmTick(d) ==
    /\ pc \in {"call1", "between"}
    /\ d = ttl => pc = "between"
    /\ now + d \in ClockOffsets
    /\ now' = now + d
    /\ UNCHANGED <<cache, metrics, pc, urls, task, alltexts, firstCall, warmFrame>>

\* getCleanedText(us) up to the first await of each task (main.ts 350-389)
CallGetCleanedText(us, next) ==
    /\ urls' = us
    /\ task' = StartTasks(us, cache, now).task
    /\ cache' = StartTasks(us, cache, now).cache
    /\ metrics' = [metrics EXCEPT !.cacheHits = @ + StartTasks(us, cache, now).hits]
    /\ pc' = next
    /\ UNCHANGED <<now, alltexts, firstCall, warmFrame>>

\* the first call
FirstCall(us) ==
    /\ pc = "start"
    /\ Len(us) > 0
    /\ CallGetCleanedText(us, "call1")

\* the first call returns (main.ts 450-461)
FirstReturn ==
    /\ pc = "call1"
    /\ JoinReady(task)
    /\ alltexts' = SuccessfulTexts(task)
    /\ firstCall' = [i \in 1..Len(task) |-> task[i].result]
    /\ task' = StillRunning(task)
    /\ pc' = "between"
    /\ UNCHANGED <<cache, now, metrics, urls, warmFrame>>

\* the second call, with the same list
SecondCall ==
    /\ pc = "between"
    /\ CallGetCleanedText(urls, "call2")

\* the second call returns
SecondReturn ==
    /\ pc = "call2"
    /\ JoinReady(task)
    /\ alltexts' = SuccessfulTexts(task)
    /\ pc' = "after"
    /\ UNCHANGED <<cache, now, metrics, urls, task, firstCall, warmFrame>>

NextWarm ==
    \/ \E d \in {1, ttl} : WarmTick(d)
    \/ \E us \in UrlLists : FirstCall(us)
    \/ \E i \in 1..MaxUrls, h \in Heads : HeadersArrive(i, h)
    \/ \E i \in 1..MaxUrls : FetchRejects(i)
    \/ \E i \in 1..MaxUrls : TimerFires(i)
    \/ \E i \in 1..MaxUrls, page \in Pages : BodyArrives(i, page)
    \/ \E i \in 1..MaxUrls : BodyRejects(i)
    \/ FirstReturn
    \/ SecondCall
    \/ SecondReturn

SpecWarm == InitWarm /\ [][NextWarm]_vars

(***************************************************************************)
(* Start-up: the command line wrapper and the module body of main.ts, up   *)
(* to the call of main().  main.ts is run directly, in any environment, or *)
(* imported by cli.ts, which first writes its options to the environment.  *)
(* The interactive mode of cli.ts is left out.                             *)
(***************************************************************************)
\* environments cli.ts is started in: nothing set, or values that the
\* options overwrite
CliEnvironments ==
    {NoEnv, [NoEnv EXCEPT !.MAX_RESULTS = <<"2", "1">>, !.TIMEOUT = <<"5", "0", "0">>]}

InitConfig ==
    /\ \/ /\ argv \in {Direct(q) : q \in {"", "q"}}
          /\ env \in Environments
       \/ /\ argv \in CommandLines
          /\ env \in CliEnvironments
    /\ served = NoServed
    /\ options = NoOptions
    /\ logged = <<>>
    /\ config = DEFAULT_CONFIG
    /\ pc = "shell"
    /\ cache = <<>>
    /\ now = 0
    /\ metrics = [totalUrls |-> 0, successfulUrls |-> 0, cacheHits |-> 0,
                  totalTokens |-> 0]
    /\ urls = <<>>
    /\ task = <<>>
    /\ alltexts = <<>>
    /\ modelIdx = 0
    /\ gen = "idle"
    /\ attemptedModels = <<>>
    /\ failedModels = <<>>
    /\ lastError = "none"
    /\ hasStarted = FALSE
    /\ tokenCount = 0
    /\ contextSize = 0
    /\ numCtx = <<>>
    /\ stdout = <<>>
    /\ report = NoReport
    /\ shown = 0
    /\ lastGet = [op |-> "none", key |-> 0, value |-> Null, at |-> 0]
    /\ ops = 0
    /\ search = NoSearch
    /\ firstCall = <<>>

configFrame == <<cache, now, metrics, urls, task, alltexts, aiVars, shown,
                 lastGet, ops, search, firstCall, served, argv>>

\* main() of cli.ts up to the import of main.ts (cli.ts 190-263): the
\* options are parsed and validated; with errors the process exits with
\* code 1, else the options are written to the environment and the format
\* is detected
CliMain ==
    /\ pc = "shell"
    /\ argv.cli
    /\ IF validateOptions(parseCliArgs(argv)) # {}
       THEN /\ options' = parseCliArgs(argv)
            /\ pc' = "exit1"
            /\ report' = [NoReport EXCEPT !.outcome = "cli_errors"]
            /\ UNCHANGED env
       ELSE /\ options' = AfterDetection(parseCliArgs(argv))
            /\ env' = EnvAfterCli(env, parseCliArgs(argv))
            /\ pc' = "import"
            /\ UNCHANGED report
    /\ UNCHANGED <<config, logged, configFrame>>

\* the module body of main.ts (main.ts 172-183): loadConfig, then the query
\* check, which exits with code 1 when there is no query
ModuleBody ==
    /\ \/ pc = "shell" /\ ~argv.cli
       \/ pc = "import"
    /\ config' = loadConfig(env).config
    /\ logged' = loadConfig(env).warnings
    /\ IF (IF argv.cli THEN options.query ELSE argv.query) = ""
       THEN /\ pc' = "exit1"
            /\ report' = [NoReport EXCEPT !.outcome = "usage"]
       ELSE /\ pc' = "loaded"
            /\ UNCHANGED report
    /\ UNCHANGED <<env, options, configFrame>>

NextConfig ==
    \/ CliMain
    \/ ModuleBody

SpecConfig == InitConfig /\ [][NextConfig]_vars

(***************************************************************************)
(* One getCleanedText call for one URL, against a network and a server     *)
(* whose behaviour is fixed beforehand, with a cache an earlier call may   *)
(* have written to.                                                        *)
(***************************************************************************)
\* what the network and the server do with the request: whether fetch
\* resolves, rejects or hangs until the timer fires; the head of the
\* response; whether text() resolves, rejects or hangs (no timer is armed
\* by then, so the task never settles); the page
Serves ==
    [fetch : {"resolves", "rejects", "hangs"}, head : Heads,
     text : {"resolves", "rejects", "hangs"}, page : Pages]

\* the cache after an earlier call fetched URL 1 at time 0
FetchedBefore == <<CacheEntry(CacheKey(1), Document(1, MinTextLength, 0), 0)>>

InitFetch ==
    /\ served \in Serves
    /\ cache \in {<<>>, FetchedBefore}
    /\ now \in {1, ttl + 1}
    /\ argv = Direct("q")
    /\ env = NoEnv
    /\ options = NoOptions
    /\ logged = <<>>
    /\ config = [ollamaModel |-> DefaultModel]
    /\ metrics = [totalUrls |-> 0, successfulUrls |-> 0, cacheHits |-> 0,
                  totalTokens |-> 0]
    /\ pc = "start"
    /\ urls = <<>>
    /\ task = <<>>
    /\ alltexts = <<>>
    /\ modelIdx = 0
    /\ gen = "idle"
    /\ attemptedModels = <<>>
    /\ failedModels = <<>>
    /\ lastError = "none"
    /\ hasStarted = FALSE
    /\ tokenCount = 0
    /\ contextSize = 0
    /\ numCtx = <<>>
    /\ stdout = <<>>
    /\ report = NoReport
    /\ shown = 0
    /\ lastGet = [op |-> "none", key |-> 0, value |-> Null, at |-> 0]
    /\ ops = 0
    /\ search = NoSearch
    /\ firstCall = <<>>

NextFetch ==
    \/ \E u \in UrlIds : FirstCall(<<u>>)
    \/ served.fetch = "resolves" /\ HeadersArrive(1, served.head)
    \/ served.fetch = "rejects" /\ FetchRejects(1)
    \/ served.fetch = "hangs" /\ TimerFires(1)
    \/ served.text = "resolves" /\ BodyArrives(1, served.page)
    \/ served.text = "rejects" /\ BodyRejects(1)
    \/ FirstReturn

SpecFetch == InitFetch /\ [][NextFetch]_vars

(***************************************************************************)
(* answerQuery called on its own with any list of texts, the empty list    *)
(* included: the context size and the fallback loop.  A text is its        *)
(* length.                                                                 *)
(***************************************************************************)
\* lengths of the texts: around the limits of the context size tiers
TextLengths == {0, 25000, 49999, 50000, 100000}

\* the lists of texts answerQuery is called with
TextLists == UNION {[1..n -> [length : TextLengths]] : n \in 0..MaxTexts}

InitAnswer ==
    /\ alltexts \in TextLists
    /\ config = [ollamaModel |-> DefaultModel]
    /\ pc = "call"
    /\ cache = <<>>
    /\ now = 0
    /\ metrics = [totalUrls |-> 0, successfulUrls |-> 0, cacheHits |-> 0,
                  totalTokens |-> 0]
    /\ urls = <<>>
    /\ task = <<>>
    /\ modelIdx = 0
    /\ gen = "idle"
    /\ attemptedModels = <<>>
    /\ failedModels = <<>>
    /\ lastError = "none"
    /\ hasStarted = FALSE
    /\ tokenCount = 0
    /\ contextSize = 0
    /\ numCtx = <<>>
    /\ stdout = <<>>
    /\ report = NoReport
    /\ shown = 0
    /\ lastGet = [op |-> "none", key |-> 0, value |-> Null, at |-> 0]
    /\ ops = 0
    /\ search = NoSearch
    /\ firstCall = <<>>
    /\ HostIdle

\* answerQuery(query, alltexts) up to its first await (main.ts 510-579)
CallAnswerQuery ==
    /\ pc = "call"
    /\ pc' = "ai"
    /\ UNCHANGED <<cache, now, config, metrics, urls, task, alltexts, report, shown,
                   lastGet, ops, search, firstCall, hostVars>>
    /\ FirstAttempt

NextAnswer ==
    \/ CallAnswerQuery
    \/ \E e \in Errors : GenerateRejects(e)
    \/ GenerateResolves
    \/ \E chunk \in Chunks : StreamChunk(chunk)
    \/ StreamEnds
    \/ \E e \in Errors : StreamThrows(e)

SpecAnswer == InitAnswer /\ [][NextAnswer]_vars

(***************************************************************************)
(* Properties.                                                             *)
(***************************************************************************)
\* tasks that have not settled: waiting for the response head or the body
Waiting(t) == {i \in 1..Len(t) : t[i].st \in {"headers", "body"}}

\* tasks that resolved with a document
Succeeded(t) == {i \in 1..Len(t) : t[i].st = "done" /\ t[i].result # Null}

\* occurrences of model in a sequence of model identifiers
Occurrences(models, model) ==
    Cardinality({k \in 1..Len(models) : models[k] = model})

\* C1: of the N tasks of a getCleanedText call, the K that resolved with a
\* document are exactly what the call returns, each with the document of its
\* own URL; a task that has settled is not changed by what the other tasks
\* do afterwards (fail, time out, succeed).
C1_ReturnsEverySuccess ==
    /\ [](\A i \in Succeeded(task) :
            task[i].result.url = task[i].url /\ task[i].url = urls[i])
    /\ [][(pc = "fetch" /\ pc' = "fetch") =>
            \A i \in 1..Len(task) : task[i].st = "done" => task'[i] = task[i]]_vars
    /\ [][(pc = "fetch" /\ pc' # "fetch") =>
            /\ Len(alltexts') = Cardinality(Succeeded(task))
            /\ \A i \in Succeeded(task) :
                 alltexts'[Cardinality({j \in Succeeded(task) : j <= i})]
                    = task[i].result]_vars

\* a call of two URLs returned one document: one task succeeded, one failed
C1_Witness ==
    /\ Len(urls) = 2
    /\ pc = "ai"
    /\ Len(alltexts) = 1

\* C2: no fetch task rejects, whatever goes wrong inside it, and
\* getCleanedText never throws to main.
C2_NoTaskRejects ==
    /\ \A i \in 1..Len(task) : task[i].st # "rejected"
    /\ report.thrown # "fetch task rejected"

\* the extractor returned nothing in one task and another timed out: both
\* resolved with null
C2_Witness ==
    \E i, j \in 1..Len(task) :
        /\ task[i].warn = "extractor_null" /\ task[i].st = "done"
        /\ task[i].result = Null
        /\ task[j].warn = "timeout" /\ task[j].st = "done"
        /\ task[j].result = Null

\* C3: answerQuery is not started, and the list of documents is not there,
\* while a fetch task of the run is still waiting.
C3_JoinBarrier ==
    (gen # "idle" \/ pc = "ai" \/ alltexts # <<>>) => Waiting(task) = {}

\* the summarizer runs after a call in which one task failed and one succeeded
C3_Witness ==
    /\ gen = "request"
    /\ Len(urls) = 2
    /\ metrics.successfulUrls = 1

\* C4: a task that waits on the remote server, for the head or for the
\* body, has its timer pending, so that the timeout aborts it.
C4_EveryWaitIsTimed ==
    \A i \in Waiting(task) : task[i].timer = "armed"

\* C5: the step in which the timer of task i fires settles task i with null
\* and changes no other task.
C5_TimeoutIsPerTask ==
    [][\A i \in 1..Len(task) :
         (task[i].timer = "armed" /\ task'[i].timer = "fired") =>
            /\ task'[i].st = "done" /\ task'[i].result = Null
            /\ \A j \in (1..Len(task)) \ {i} : task'[j] = task[j]]_vars

\* one task timed out while the other was still waiting for its body
C5_Witness ==
    \E i, j \in 1..Len(task) :
        /\ task[i].warn = "timeout"
        /\ task[j].st = "body"

\* C6: with a chain that starts with three different models A, B, C, when
\* the attempts on A and B fail and the attempt on C succeeds, each of the
\* three was requested once, in that order, and all the text written comes
\* from the attempt on C.
C6_OutputFromThirdModel ==
    (/\ gen = "returned"
     /\ Len(attemptedModels) = 3
     /\ Cardinality({fallbackModels(config)[k] : k \in 1..3}) = 3) =>
        /\ Len(failedModels) = 2
        /\ attemptedModels = SubSeq(fallbackModels(config), 1, 3)
        /\ \A k \in 1..Len(stdout) : stdout[k].attempt = 3

\* C7: no model identifier is requested twice during one answerQuery call.
C7_NoModelRetried ==
    \A k \in 1..Len(attemptedModels) :
        Occurrences(attemptedModels, attemptedModels[k]) = 1

\* C8: the attempts follow the chain from its first entry, the configured
\* model; every attempt but the current one has failed; the call fails only
\* when the chain is used up, and after a success nothing more is attempted.
C8_ChainOrder ==
    /\ [](/\ Len(attemptedModels) <= Len(fallbackModels(config))
          /\ attemptedModels = SubSeq(fallbackModels(config), 1, Len(attemptedModels))
          /\ gen # "idle" => attemptedModels[1] = config.ollamaModel
          /\ failedModels = SubSeq(fallbackModels(config), 1, Len(failedModels))
          /\ gen \in {"request", "stream", "returned"}
                => Len(attemptedModels) = Len(failedModels) + 1
          /\ gen = "threw" => Len(failedModels) = Len(fallbackModels(config)))
    /\ [][gen = "returned" => attemptedModels' = attemptedModels]_vars
    /\ [][(/\ Len(failedModels') > Len(failedModels)
           /\ Len(failedModels') < Len(fallbackModels(config)))
            => attemptedModels' = Append(attemptedModels,
                                   fallbackModels(config)[Len(failedModels') + 1])]_vars

\* the third model answered after an error that is neither "not found" nor a
\* connection error
C8_Witness ==
    /\ gen = "returned"
    /\ Len(attemptedModels) = 3
    /\ lastError = "unexpected EOF"

\* C9 as stated: after the last model failed, the error thrown to main
\* quotes the last model error.
C9_ThrownErrorQuotesLastError ==
    gen = "threw" =>
        /\ Len(failedModels) = Len(fallbackModels(config))
        /\ report.cause = lastError

\* C9, amended: answerQuery throws only after every chain entry has failed;
\* the error of the last attempt is printed in the `Last error:` line, and
\* the Error thrown has a fixed message that quotes no model error.
C9_LastErrorIsPrinted ==
    /\ [](gen = "threw" =>
            /\ failedModels = fallbackModels(config)
            /\ attemptedModels = fallbackModels(config)
            /\ pc = "exit1"
            /\ report.thrown = AllFailedMessage
            /\ report.cause = "none"
            /\ report.lastErrorLine = lastError)
    /\ [][\A e \in Errors :
            ((GenerateRejects(e) \/ StreamThrows(e)) /\ gen' = "threw")
                => report'.lastErrorLine = e]_vars

\* every model of the chain failed
C9_Witness ==
    /\ gen = "threw"
    /\ Len(failedModels) = 6
    /\ report.lastErrorLine = "connect ECONNREFUSED"

\* C10: the cache never holds more than maxSize entries.
C10_SizeCeiling == Len(cache) <= maxSize

\* a set on a full cache evicted and inserted
C10_Witness ==
    /\ lastGet.op = "set"
    /\ lastGet.key = maxSize + 1
    /\ Len(cache) = maxSize - EvictCount + 1


\* keys of the Map
Keys(c) == {c[i].key : i \in 1..Len(c)}

\* the entry of key in the Map (key is present)
EntryOf(c, key) == c[CacheIndex(c, key)]

\* positions of the entries of c, other than the one of key, whose key is no
\* longer in d / is still in d
Gone(c, d, key) ==
    LET keys == Keys(d) IN
    {i \in 1..Len(c) : c[i].key # key /\ c[i].key \notin keys}
Retained(c, d, key) ==
    LET keys == Keys(d) IN
    {i \in 1..Len(c) : c[i].key # key /\ c[i].key \in keys}

\* the newest timestamp / the oldest timestamp of the entries of c at positions S
Newest(c, S) == CHOOSE t \in {c[i].timestamp : i \in S} :
                    \A i \in S : c[i].timestamp <= t
Oldest(c, S) == CHOOSE t \in {c[i].timestamp : i \in S} :
                    \A i \in S : c[i].timestamp >= t

\* no entry of c at a position of S is newer than one at a position of R
NoneNewer(c, S, R) == (S # {} /\ R # {}) => Newest(c, S) <= Oldest(c, R)

\* the step is a set call / a get call of SimpleCache
IsSetStep == lastGet'.op = "set" /\ ops' = ops + 1
IsGetStep == lastGet'.op = "get" /\ ops' = ops + 1

\* C11: when a set evicts, no evicted entry was created after a retained
\* one, and the key that was set is in the cache afterwards.
C11_EvictionRetainsNewest ==
    [][IsSetStep =>
         LET gone == Gone(cache, cache', lastGet'.key)
             kept == Retained(cache, cache', lastGet'.key)
         IN gone # {} =>
              /\ NoneNewer(cache, gone, kept)
              /\ lastGet'.key \in Keys(cache')
              /\ EntryOf(cache', lastGet'.key).content = lastGet'.value]_vars

\* a set evicted from a cache whose first entry was the newest: the first
\* key of the Map is kept, the second is gone
C11_Witness ==
    /\ lastGet.op = "set"
    /\ lastGet.key = maxSize + 1
    /\ Len(cache) = maxSize - EvictCount + 1
    /\ 1 \in Keys(cache)
    /\ 2 \notin Keys(cache)

\* C12: set on a cache of maxSize entries removes the 20 oldest entries
\* (maxSize / 5), then inserts the new entry with hits = 0; set on a cache of
\* fewer entries removes none.  The old entry of the key that is set is one
\* of the 20 when it is among the oldest, and is overwritten in place when it
\* is not.
C12_EvictsOldestFifth ==
    [][IsSetStep =>
         LET key == lastGet'.key
             gone == Gone(cache, cache', lastGet'.key)
             kept == Retained(cache, cache', lastGet'.key)
         IN
         /\ EntryOf(cache', key) = CacheEntry(key, lastGet'.value, now)
         /\ Len(cache) < maxSize =>
              /\ gone = {}
              /\ Len(cache') = Len(cache) + (IF key \in Keys(cache) THEN 0 ELSE 1)
         /\ Len(cache) = maxSize =>
              /\ NoneNewer(cache, gone, kept)
              /\ \/ /\ key \notin Keys(cache)
                    /\ Cardinality(gone) = 20
                    /\ Len(cache') = maxSize - 20 + 1
                 \/ /\ key \in Keys(cache)
                    /\ Cardinality(gone) = 20
                    /\ Len(cache') = maxSize - 20
                 \/ /\ key \in Keys(cache)
                    /\ Cardinality(gone) = 20 - 1
                    /\ Len(cache') = maxSize - 20 + 1
                    /\ kept # {} => EntryOf(cache, key).timestamp <= Oldest(cache, kept)
         /\ \A r \in kept : cache[r] \in {cache'[k] : k \in 1..Len(cache')}]_vars

\* a set of a new key on a full cache left 81 entries, the new one with no hits
C12_Witness ==
    /\ lastGet.op = "set"
    /\ lastGet.key = maxSize + 1
    /\ Len(cache) = maxSize - 20 + 1
    /\ EntryOf(cache, maxSize + 1).hits = 0
    /\ ops = 1

\* C13: get(k) right after set(k, v) returns v; get of a key that is not in
\* the Map (never set, for one) returns null and leaves the cache as it was.
C13_RoundTrip ==
    [][IsGetStep =>
         /\ (lastGet.op = "set" /\ lastGet.key = lastGet'.key /\ lastGet.at = now)
               => lastGet'.value = lastGet.value
         /\ lastGet'.key \notin Keys(cache)
               => (lastGet'.value = Null /\ cache' = cache)]_vars

\* page B was set over page A and read back at once
C13_Witness ==
    /\ lastGet.op = "get"
    /\ lastGet.key = 1
    /\ lastGet.value = [page |-> "B"]
    /\ lastGet.at = maxSize
    /\ ops = 2

\* C14: get(k) of an entry created at T returns null and deletes the entry
\* when now - T > ttl; otherwise it returns the content and the entry stays.
C14_ExpiryOnRead ==
    [][(IsGetStep /\ lastGet'.key \in Keys(cache)) =>
         IF now - EntryOf(cache, lastGet'.key).timestamp > ttl
         THEN /\ lastGet'.value = Null
              /\ lastGet'.key \notin Keys(cache')
              /\ Len(cache') = Len(cache) - 1
         ELSE /\ lastGet'.value = EntryOf(cache, lastGet'.key).content
              /\ lastGet'.key \in Keys(cache')
              /\ EntryOf(cache', lastGet'.key).content = EntryOf(cache, lastGet'.key).content
              /\ EntryOf(cache', lastGet'.key).timestamp
                    = EntryOf(cache, lastGet'.key).timestamp
              /\ Len(cache') = Len(cache)]_vars

\* an entry read one millisecond after its time to live: null, and gone
C14_Witness ==
    /\ lastGet.op = "get"
    /\ lastGet.key = maxSize
    /\ lastGet.value = Null
    /\ lastGet.at = maxSize - 1 + ttl + 1
    /\ Len(cache) = maxSize - 1
    /\ maxSize \notin Keys(cache)


\* the denylist of the URL filter: thread pages of reddit, twitter, facebook,
\* watch pages of youtube, addresses that end in .pdf
MatchesDenylist(url) ==
    \/ Includes(url, <<"reddit.com", "/r/">>)
    \/ Includes(url, <<"twitter.com">>)
    \/ Includes(url, <<"facebook.com">>)
    \/ Includes(url, <<"youtube.com", "/watch">>)
    \/ EndsWith(url, <<".pdf">>)

\* an absolute http or https URL with a host
IsHttpUrl(url) == Len(url) >= 2 /\ url[1] \in {"http://", "https://"}

\* the values of a sequence
Range(f) == {f[i] : i \in 1..Len(f)}

\* getNewsUrls returned for a response that carried a results array
ReturnedFromResults ==
    /\ search.st = "returned"
    /\ search.body # NoResults

\* C16: no result URL that matches the denylist is returned, and every http(s)
\* URL that matches none of its patterns passes the filter (it is returned
\* unless maxResults accepted URLs come before it).
C16_FilterDenylist ==
    ReturnedFromResults =>
        /\ \A u \in Range(search.body.results) :
              MatchesDenylist(u) => u \notin Range(urls)
        /\ \A i \in 1..Len(search.body.results) :
              (/\ IsHttpUrl(search.body.results[i])
               /\ ~MatchesDenylist(search.body.results[i])
               /\ i <= config.maxResults)
                 => search.body.results[i] \in Range(urls)

\* a response with a PDF address, an address that only mentions .pdf, and a
\* reddit page that is no thread: the last two are returned
C16_Witness ==
    /\ ReturnedFromResults
    /\ search.body.results = << <<"https://", "example.com", "/doc", ".pdf">>,
                                <<"https://", "example.com", "/doc", ".pdf", "?dl=1">>,
                                <<"https://", "reddit.com", "/user/", "test">> >>
    /\ Len(urls) = 2

\* C17: no string that is not an absolute http(s) URL becomes a candidate:
\* "not-a-url", "http://", "" and "ftp://example.com" are never returned.
C17_OnlyHttpCandidates ==
    search.st = "returned" => \A k \in 1..Len(urls) : IsHttpUrl(urls[k])

\* the k-th smallest member of a set of positions
KthOf(positions, k) ==
    CHOOSE i \in positions : Cardinality({j \in positions : j <= i}) = k

\* positions of the results the filter accepts
Accepted(results) == {i \in 1..Len(results) : Filter(results[i])}

\* C18: getNewsUrls returns the first maxResults accepted URLs of the
\* response, in the order of the response.
C18_FirstEligibleInOrder ==
    ReturnedFromResults =>
        /\ Len(urls) <= config.maxResults
        /\ Len(urls) =
              IF Cardinality(Accepted(search.body.results)) < config.maxResults
              THEN Cardinality(Accepted(search.body.results))
              ELSE config.maxResults
        /\ \A k \in 1..Len(urls) :
              urls[k] = search.body.results[KthOf(Accepted(search.body.results), k)]

\* three results, the first one rejected, maxResults = 2: the second and the
\* third are returned
C18_Witness ==
    /\ ReturnedFromResults
    /\ config.maxResults = 2
    /\ Len(search.body.results) = 3
    /\ ~Filter(search.body.results[1])
    /\ urls = SubSeq(search.body.results, 2, 3)
    /\ urls[1] # urls[2]

\* C19: getNewsUrls throws when the status is not a success, when the request
\* times out and when the body cannot be read as JSON (malformed or empty);
\* it returns an empty list when the results array is empty.
C19_SearchFailures ==
    /\ search.status = "not ok" => (search.st = "threw" /\ search.thrown = SearchFailedMessage)
    /\ search.timer = "fired"
          => (search.st = "threw" /\ search.thrown = SearchTimedOutMessage)
    /\ search.cause \in BodyFailures
          => (search.st = "threw" /\ search.thrown = SearchFailedMessage)
    /\ search.st = "threw" => urls = <<>>
    /\ search.body = WithResults(<<>>) => (search.st = "returned" /\ urls = <<>>)
    /\ search.st = "returned" => (search.status = "ok" /\ search.thrown = "none")

\* the backend answered 500
C19_Witness ==
    /\ search.st = "threw"
    /\ search.status = "not ok"
    /\ search.cause = "status"


\* C20: a search failure and the failure of every model end the run with
\* exit code 1: after a search failure no fetch task was started and no model
\* was asked, after the failure of all models no success is reported, and
\* nothing runs after the exit.
C20_FatalFailureExits ==
    /\ [](report.thrown \in {SearchTimedOutMessage, SearchFailedMessage} =>
            /\ pc = "exit1"
            /\ report.outcome = "error"
            /\ urls = <<>>
            /\ task = <<>>
            /\ metrics.totalUrls = 0
            /\ attemptedModels = <<>>
            /\ gen = "idle"
            /\ stdout = <<>>)
    /\ [](gen = "threw" =>
            /\ pc = "exit1"
            /\ report.outcome = "error"
            /\ report.thrown = AllFailedMessage)
    /\ [][pc # "exit1"]_vars

\* the search timed out: the run is over, the metrics were shown once
C20_Witness ==
    /\ pc = "exit1"
    /\ report.thrown = SearchTimedOutMessage
    /\ shown = 1


\* positions of the list whose URL produced a document somewhere in the
\* first call
SucceededBefore == {i \in 1..Len(urls) :
                      \E j \in 1..Len(urls) : urls[j] = urls[i] /\ firstCall[j] # Null}

\* every cache entry is within its time to live
AllWithinTtl == \A k \in 1..Len(cache) : now - cache[k].timestamp <= ttl

\* C15: when the second call starts while the entries of the first call are
\* within their time to live, every URL that produced a document in the first
\* call is resolved from the cache without a request, is counted as a cache
\* hit, and yields the document the first call returned for it.
C15_WarmCacheSameText ==
    [][(pc = "between" /\ pc' = "call2" /\ AllWithinTtl) =>
         /\ \A i \in SucceededBefore :
              /\ task'[i].st = "done"
              /\ task'[i].fetched = FALSE
              /\ \A j \in 1..Len(urls) :
                    (urls[j] = urls[i] /\ firstCall[j] # Null)
                        => task'[i].result = firstCall[j]
         /\ metrics'.cacheHits = metrics.cacheHits + Cardinality(SucceededBefore)]_vars

\* the run is over
Terminated == pc \in {"done", "exit1"}

\* C21: when the search returns zero eligible URLs the run ends at once and
\* gracefully: totalUrls is 0, no fetch task was started, no model was
\* attempted, the outcome is the no-results message, nothing was thrown and
\* the process does not exit with a non-zero code; nothing happens afterwards.
C21_NoUrlsEndsGracefully ==
    [][/\ (pc = "search" /\ pc' # "exit1" /\ Len(urls') = 0) =>
            /\ pc' = "done"
            /\ report' = [NoReport EXCEPT !.outcome = "no_results"]
            /\ metrics'.totalUrls = 0
            /\ metrics'.successfulUrls = 0
            /\ task' = <<>>
            /\ gen' = "idle"
            /\ attemptedModels' = <<>>
            /\ stdout' = <<>>
       /\ report.outcome # "no_results"]_vars

\* a run that ended with the no-results message
C21_Witness ==
    /\ pc = "done"
    /\ report.outcome = "no_results"
    /\ metrics.totalUrls = 0
    /\ task = <<>>
    /\ attemptedModels = <<>>

\* C22: on every terminating path of main (zero results, zero documents,
\* success, search failure, all models failed) the metrics report is shown
\* exactly once: not before the run is over, once when it is over, and no
\* stage runs after it.
C22_MetricsShownOnceAtEnd ==
    /\ [](shown = IF Terminated THEN 1 ELSE 0)
    /\ [][~Terminated /\ (Terminated' => shown' = shown + 1)]_vars

\* every model of the chain failed: the report was shown once, on the way out
C22_Witness ==
    /\ pc = "exit1"
    /\ gen = "threw"
    /\ Len(failedModels) = Len(fallbackModels(config))
    /\ shown = 1

\* C23 (as stated): when the retrieved document list is empty the
\* Summarizer still issues a generation attempt to the first model of the
\* chain.
C23_EmptyListStillAttempts ==
    (pc \notin {"search", "fetch"} /\ metrics.totalUrls > 0 /\ alltexts = <<>>)
        => /\ Len(attemptedModels) >= 1
           /\ attemptedModels[1] = fallbackModels(config)[1]

\* C23 (amended): main calls answerQuery only with a non-empty document
\* list; when the fetch stage yields no document the run ends gracefully
\* with the no-content message and no model is attempted.
C23_NoDocumentsNoAttempt ==
    /\ attemptedModels # <<>> => alltexts # <<>>
    /\ report.outcome = "no_content" =>
          /\ pc = "done"
          /\ metrics.totalUrls > 0
          /\ metrics.successfulUrls = 0
          /\ alltexts = <<>>
          /\ gen = "idle"
          /\ attemptedModels = <<>>
          /\ stdout = <<>>
          /\ report.thrown = "none"

\* two URLs were fetched, neither gave a document, and the run ended
C23_Witness ==
    /\ pc = "done"
    /\ report.outcome = "no_content"
    /\ Len(urls) = 2
    /\ attemptedModels = <<>>

\* the settings whose value in the environment loadConfig reads is set and
\* is not a valid one: a search URL that is no http(s) URL, a max results
\* outside 1..20, a timeout that is no number of at least 1000, an output
\* format that is none of the five
InvalidSettings(e) ==
    {name \in {"SEARCH_URL", "MAX_RESULTS", "TIMEOUT", "OUTPUT_FORMAT"} :
        CASE name = "SEARCH_URL" ->
                e.SEARCH_URL # <<>> /\ e.SEARCH_URL[1] \notin {"http://", "https://"}
          [] name = "MAX_RESULTS" ->
                e.MAX_RESULTS \notin {<<>>, <<"1">>, <<"5">>, <<"2", "0">>}
          [] name = "TIMEOUT" ->
                e.TIMEOUT \notin {<<>>, <<"1", "0", "0", "0">>, <<"3", "0", "0", "0", "0">>}
          [] name = "OUTPUT_FORMAT" ->
                e.OUTPUT_FORMAT \notin {"", "console", "json", "markdown", "html", "text"}}

\* the loaded configuration has the default for the setting
HasDefault(name) ==
    CASE name = "SEARCH_URL" -> config.searchUrl = <<"http://", "localhost:9999/search">>
      [] name = "MAX_RESULTS" -> config.maxResults = 5
      [] name = "TIMEOUT" -> config.timeout = 30000
      [] name = "OUTPUT_FORMAT" -> config.outputFormat = "console"

\* C24: an invalid configuration value (search URL, max results, timeout,
\* output format) never terminates the run: only a missing query makes the
\* command line wrapper exit, and once the configuration is loaded every
\* invalid value has been replaced by its default and a warning has been
\* logged for it.
C24_InvalidValuesWarnNeverFatal ==
    /\ report.outcome = "cli_errors" => argv.query = ""
    /\ pc = "loaded" =>
          \A name \in InvalidSettings(env) :
              /\ HasDefault(name)
              /\ \E k \in 1..Len(logged) : logged[k] = name

\* C25: after the configuration is loaded the effective maximum number of
\* results is within 1..20 and the effective timeout is at least 1000 ms.
C25_EffectiveLimits ==
    pc = "loaded" =>
        /\ config.maxResults \in 1..20
        /\ config.timeout >= 1000

\* the format the claim gives an extension
ClaimedFormat(ext) ==
    CASE ext = "json" -> "json"
      [] ext = "md" -> "markdown"
      [] ext = "markdown" -> "markdown"
      [] ext = "html" -> "html"
      [] ext = "htm" -> "html"
      [] ext = "txt" -> "text"
      [] ext = "text" -> "text"
      [] OTHER -> "none"

\* C26: through cli.ts, --save FILE without --format gives the run the
\* format of the file's extension: json, md / markdown, html / htm,
\* txt / text.
C26_FormatFromExtension ==
    (/\ pc \in {"import", "loaded"}
     /\ argv.cli
     /\ argv.format = <<>>
     /\ argv.save # <<>>
     /\ ClaimedFormat(argv.save[1][Len(argv.save[1])]) # "none")
        => options.format = ClaimedFormat(argv.save[1][Len(argv.save[1])])

\* every gate of the claim passes for what the network and the server do:
\* a response with an ok status and an HTML or XHTML content type, a body of
\* at least 100 characters, an extracted text of at least 50 characters
AllGatesPass(s) ==
    /\ s.fetch = "resolves"
    /\ s.head.ok
    /\ s.head.contentType \in {"text/html; charset=utf-8", "application/xhtml+xml"}
    /\ s.text = "resolves"
    /\ s.page.htmlLength >= 100
    /\ s.page.parse = "article"
    /\ s.page.textLength >= 50

\* C27: on a cache miss a fetch task produces a document exactly when all
\* gates pass (ok status, content type text/html or application/xhtml, body
\* of at least 100 characters, extracted text of at least 50 characters);
\* otherwise its result is absent, and so is what the call returns for it.
C27_DocumentIffAllGates ==
    /\ \A i \in 1..Len(task) :
          (task[i].st = "done" /\ task[i].fetched) =>
              IF AllGatesPass(served)
              THEN task[i].result = Document(task[i].url, served.page.textLength, now)
              ELSE task[i].result = Null
    /\ (pc = "between" /\ metrics.cacheHits = 0) =>
          IF AllGatesPass(served)
          THEN alltexts = <<Document(urls[1], served.page.textLength, now)>>
          ELSE alltexts = <<>> /\ firstCall = <<Null>>

\* a miss whose page passes every gate at the limits: a document is returned
C27_Witness ==
    /\ pc = "between"
    /\ metrics.cacheHits = 0
    /\ Len(alltexts) = 1
    /\ served.page.htmlLength = 100
    /\ served.page.textLength = 50

\* what the cache stores: the entries without their hit counters
Stored(c) ==
    {[key |-> c[k].key, content |-> c[k].content, timestamp |-> c[k].timestamp] :
        k \in 1..Len(c)}

\* C28: the cache is written exactly when a fetch task succeeds, in the
\* step in which the task settles with its document: the entry written is
\* the document under the key of the task's URL.  A task that ends absent, a
\* task served from the cache and the return of the call write nothing.
C28_CacheWrittenOnSuccessOnly ==
    [][LET succeeded == {i \in 1..Len(task) :
                            /\ Len(task') = Len(task)
                            /\ task[i].st = "body"
                            /\ task'[i].st = "done"
                            /\ task'[i].result # Null}
       IN /\ Stored(cache') \ Stored(cache) =
                {[key |-> CacheKey(task[i].url), content |-> task'[i].result,
                  timestamp |-> now] : i \in succeeded}
          /\ \A i \in succeeded :
                CacheGetValue(cache', CacheKey(task[i].url), now) = task'[i].result]_vars

\* a task that fetched URL 2 has settled with a document, which is in the
\* cache next to the entry of the earlier call
C28_Witness ==
    /\ pc = "call1"
    /\ Len(task) = 1
    /\ task[1].st = "done"
    /\ task[1].fetched
    /\ task[1].result # Null
    /\ task[1].url = 2
    /\ Len(cache) = 2
    /\ cache[2].content = task[1].result

\* C29: a get that finds a valid entry increments the hits of that entry by
\* one and changes nothing else: every other entry, the order of the Map and
\* every timestamp stay as they were, so the entries a later set would evict
\* are the same as before the read (eviction goes by creation time, not by
\* use).
C29_HitOnlyCountsHits ==
    [][(IsGetStep /\ lastGet'.value # Null) =>
         LET k == CacheIndex(cache, lastGet'.key) IN
         /\ k # 0
         /\ Len(cache') = Len(cache)
         /\ cache'[k] = [cache[k] EXCEPT !.hits = cache[k].hits + 1]
         /\ \A j \in 1..Len(cache) : j # k => cache'[j] = cache[j]
         /\ now' = now
         /\ {cache'[j].key : j \in EvictedPositions(cache')}
               = {cache[j].key : j \in EvictedPositions(cache)}]_vars

\* the oldest entry of a full cache was read twice: two hits, and it is
\* still the first the next set evicts
C29_Witness ==
    /\ Len(cache) = maxSize
    /\ lastGet.op = "get"
    /\ lastGet.key = 1
    /\ lastGet.value # Null
    /\ cache[1].key = 1
    /\ cache[1].hits = 2
    /\ 1 \in EvictedPositions(cache)

\* fragments written to stdout by the attempt at position idx of the chain
FragmentsOf(idx) == SelectSeq(stdout, LAMBDA f : f.attempt = idx)

ClaimedContextSize(L) ==
    IF L <= 50000 THEN 16000
    ELSE IF L <= 100000 THEN 32000
    ELSE 65536

\* the length of the texts joined by line ends
CombinedLength ==
    LET F[i \in 0..Len(alltexts)] ==
            IF i = 0 THEN 0 ELSE F[i - 1] + alltexts[i].length
    IN F[Len(alltexts)] + (IF Len(alltexts) > 1 THEN Len(alltexts) - 1 ELSE 0)

\* C31: the context size passed to the model is the three-tier step
\* function of the combined content length L: 16000 when L <= 50000, 32000
\* when 50000 < L <= 100000, 65536 when L > 100000; every generate call of
\* the run gets it, one call per attempted model.
C31_ContextSizeTiers ==
    /\ Len(numCtx) = Len(attemptedModels)
    /\ \A k \in 1..Len(numCtx) : numCtx[k] = ClaimedContextSize(CombinedLength)

\* every model was attempted with the middle size at the upper limit of its
\* tier: 50000 + 1 + 49999 characters
C31_Witness ==
    /\ Len(alltexts) = 2
    /\ CombinedLength = 100000
    /\ Len(numCtx) = Len(fallbackModels(config))
    /\ numCtx[Len(numCtx)] = 32000
    /\ gen = "threw"

\* C32: in a run each cache key is fetched by one task: no two tasks of
\* the same getCleanedText call issue a request for, and so write, the same
\* cache key.
C32_OneTaskPerKey ==
    \A i, j \in 1..Len(task) :
        (i # j /\ task[i].fetched /\ task[j].fetched)
            => CacheKey(task[i].url) # CacheKey(task[j].url)

\* MAX_RESULTS is taken only from 1..20, whether the environment comes from
\* the shell or from the command line
LoadedMaxResultsWithinLimit ==
    /\ \A e \in Environments : loadConfig(e).config.maxResults \in 1..20
    /\ \A a \in CommandLines, e \in CliEnvironments :
           validateOptions(parseCliArgs(a)) = {}
               => loadConfig(EnvAfterCli(e, parseCliArgs(a))).config.maxResults \in 1..20

\* a step in which a fetch task stores the document it fetched
StoresFetchedDocument ==
    \E i \in 1..Len(task) :
        /\ task[i].st = "body"
        /\ task[i].fetched
        /\ task'[i].st = "done"
        /\ task'[i].result # Null

\* C38: in every reachable state of a run cacheHits <= totalUrls,
\* successfulUrls <= totalUrls <= maxResults <= 20, and the cache has at most
\* one entry per successful fetch of the run (it starts empty and grows by
\* one entry at a time, only in a step in which a fetch succeeds), so it
\* stays below its capacity and no set of the run evicts.
C38_RunInvariants ==
    /\ [](/\ metrics.cacheHits <= metrics.totalUrls
          /\ metrics.successfulUrls <= metrics.totalUrls
          /\ metrics.totalUrls <= config.maxResults
          /\ config.maxResults <= 20
          /\ LoadedMaxResultsWithinLimit
          /\ Len(cache) <= Len(urls)
          /\ Len(urls) <= config.maxResults
          /\ Len(cache) < maxSize)
    /\ [][/\ Len(cache') <= Len(cache) + 1
          /\ Len(cache') > Len(cache) => StoresFetchedDocument]_vars

\* the search found more than maxResults URLs, every URL kept was fetched
\* and cached, and the answer is being generated
C38_Witness ==
    /\ pc = "ai"
    /\ metrics.totalUrls = config.maxResults
    /\ metrics.successfulUrls = metrics.totalUrls
    /\ Len(cache) = metrics.totalUrls
    /\ Len(cache) > 1

\* the keys of a Map are distinct and every entry has its three fields and
\* a whole page as content
WholeEntries(c) ==
    /\ Cardinality({c[i].key : i \in 1..Len(c)}) = Len(c)
    /\ \A i \in 1..Len(c) :
           /\ DOMAIN c[i] = {"key", "content", "timestamp", "hits"}
           /\ c[i].content \in {[page |-> "A"], [page |-> "B"]}

\* positions of c whose key, other than key, is no longer in d
SweptPositions(c, d, key) ==
    LET left == {d[j].key : j \in 1..Len(d)}
    IN {i \in 1..Len(c) : c[i].key # key /\ c[i].key \notin left}

\* position of key in c, as a set
PositionsOf(c, key) == {i \in 1..Len(c) : c[i].key = key}

IsCallStep == pc' # pc /\ pc' \in {"call1", "call2"}

\* a step in which a call of getCleanedText returns: its tasks have joined
IsReturnStep ==
    /\ pc \in {"call1", "call2"}
    /\ JoinReady(task)
    /\ pc' \in {"between", "after"}

\* C34 as stated: the counters are modified only after the concurrent part
\* of a stage has joined, never from inside a fetch task.
C34_CountersOnlyAfterJoin ==
    [][metrics' # metrics => IsReturnStep]_vars

\* C34: cacheHits is incremented inside the fetch tasks, once by every
\* task served from the cache, in the part of the task that runs before its
\* first await, while the call starts its tasks one after the other; no step
\* of a task after an await, and no return, modifies a counter.
C34_HitsCountedBeforeFirstAwait ==
    [][/\ metrics' # metrics => IsCallStep
       /\ IsCallStep =>
              metrics' = [metrics EXCEPT !.cacheHits =
                             @ + Cardinality({i \in 1..Len(task') : ~task'[i].fetched})]]_vars

\* the call found the page in the cache: the hit is counted before the call
\* has returned
C34_Witness ==
    /\ pc = "call1"
    /\ metrics.cacheHits = 1
    /\ Len(task) = 1
    /\ ~task[1].fetched
    /\ task[1].result # Null

\* a step in which main calls getCleanedText with the URLs of the search
IsFetchStart == pc = "search" /\ pc' = "fetch"

\* C35: within one getCleanedText call every task looks the cache up
\* before any task writes to it: the step that starts the tasks writes
\* nothing, so on the cold cache of a run no lookup hits, cacheHits stays 0,
\* and every URL of the list, each occurrence of a repeated URL included,
\* has its own request sent.
C35_LookupsBeforeWrites ==
    /\ [](metrics.cacheHits = 0)
    /\ [][IsFetchStart =>
            /\ cache = <<>>
            /\ cache' = <<>>
            /\ Len(task') = Len(urls')
            /\ \A i \in 1..Len(urls') :
                  /\ task'[i].url = urls'[i]
                  /\ task'[i].fetched
                  /\ task'[i].st = "headers"
                  /\ task'[i].timer = "armed"]_vars

\* the same URL twice in the list: two requests in flight, no hit
C35_Witness ==
    /\ pc = "fetch"
    /\ Len(urls) = 2
    /\ urls[1] = urls[2]
    /\ task[1].st = "headers" /\ task[1].fetched
    /\ task[2].st = "headers" /\ task[2].fetched
    /\ metrics.cacheHits = 0

\* a step in which getCleanedText returns its documents to main
IsJoinStep == pc = "fetch" /\ pc' # pc /\ ~JoinRejected(task)

\* C36: the documents getCleanedText returns are in the order of their
\* URLs in the list it was given: the k-th document is the result of the
\* k-th list position that produced one, whatever the order in which the
\* tasks completed.
C36_DocumentsInListOrder ==
    [][IsJoinStep =>
         LET produced == {i \in 1..Len(task) : task[i].result # Null}
         IN /\ Len(task) = Len(urls)
            /\ Len(alltexts') = Cardinality(produced)
            /\ \A i \in produced :
                  /\ task[i].result.url = urls[i]
                  /\ alltexts'[Cardinality({j \in produced : j <= i})]
                        = task[i].result]_vars

\* the task of the second URL completed first (its document was cached
\* first), and the document of the first URL is still returned first
C36_Witness ==
    /\ pc = "ai"
    /\ urls = <<1, 2>>
    /\ Len(alltexts) = 2
    /\ alltexts[1].url = 1
    /\ alltexts[2].url = 2
    /\ Len(cache) = 2
    /\ cache[1].key = CacheKey(2)
    /\ cache[2].key = CacheKey(1)

\* the tasks whose request is in flight
Requesting(t) == {i \in 1..Len(t) : t[i].st = "headers"}

C39_NoOutputFromFailedAttempt ==
    \A k \in 1..Len(stdout) : stdout[k].attempt > Len(failedModels)


====
